---- MODULE Spec2Model ----
(***************************************************************************)
(* METEOR: declarative CRUD generator.                                     *)
(*                                                                         *)
(* Two state machines share this module:                                   *)
(*   SpecPath - a ParamsBuilder resolving an association path string       *)
(*              (filterAssociations) and the client-side encoder           *)
(*              (CrudAPIUtils.getIncludeString) feeding it back;           *)
(*   Spec     - a CrudService instance generated from an options object,   *)
(*              called against a data layer (Model) and a file storage.    *)
(* SpecFindAll and SpecDestroy are that instance with one operation and    *)
(* all of its arguments; SpecBuilder is a ParamsBuilder constructed with   *)
(* required properties and chained through its filter methods.             *)
(*                                                                         *)
(* JavaScript strings are sequences of one-character strings, so that      *)
(* String.prototype.split and string concatenation are computed.           *)
(***************************************************************************)
EXTENDS Integers, Sequences, FiniteSets, TLC

(***************************************************************************)
(* Bounds                                                                  *)
(***************************************************************************)
\* longest enumerated path string
MaxLen == 4

\* most rows the data layer holds; row keys are 1..MaxRows
MaxRows == 2

\* largest limit argument given to findAll
MaxLimit == 2

\* largest page argument given to findAll
MaxPage == 2
MaxPairs == 2

\* characters of enumerated path strings: three letters and the delimiters
Letters == {"T", "I", "M"}
Delims == {",", ".", ":"}
Alphabet == Letters \cup Delims

(***************************************************************************)
(* State                                                                   *)
(***************************************************************************)
VARIABLES
    pbModel,        \* the Model a ParamsBuilder step is given
    inputParams,    \* ParamsBuilder.inputParams
    outputParams,   \* ParamsBuilder.outputParams
    pbError,        \* the error a ParamsBuilder step threw, NoError if none
    pbPc,           \* where the builder chain stands
    pbStep,         \* the builder method called last, with its arguments
    round,          \* 1: the caller's string, 2: the re-sent encoded string
    sentTree,       \* the resolved tree handed to the client encoder
    includeString,  \* the result of CrudAPIUtils.getIncludeString
    options,        \* the options object a CrudService was constructed with
    members,        \* the operations defined on the CrudService instance
    table,          \* the data layer: the dataValues of each row, by key
    call,           \* the last invocation: arguments, outcome, calls it made
    destroyed,      \* keys whose row a destroy removed and no create re-added
    apis,           \* the CrudAPI instances: constructor arguments and closure
    localStorage,   \* the browser's localStorage
    callerParams,   \* the params object the caller of the client holds
    apiCall,        \* the last call on a CrudAPI instance and what it sent
    whereObject,    \* the where mapping a client encodes, as pairs in key order
    whereString     \* the result of CrudAPIUtils.getWhereString

pathVars == << pbModel, inputParams, outputParams, pbError, pbPc, pbStep, round,
               sentTree, includeString >>

crudVars == << options, members, table, call, destroyed >>

apiVars == << apis, localStorage, callerParams, apiCall, whereObject, whereString >>

vars == << pathVars, crudVars, apiVars >>

(***************************************************************************)
(* JavaScript helpers                                                      *)
(***************************************************************************)
\* index of the first occurrence of character d in s, 0 when there is none
RECURSIVE IndexOf(_, _, _)
IndexOf(s, d, i) ==
    IF i > Len(s) THEN 0
    ELSE IF s[i] = d THEN i
    ELSE IndexOf(s, d, i + 1)

\* s.split(d) for a one-character separator: "".split(d) is [""]
RECURSIVE Split(_, _)
Split(s, d) ==
    LET i == IndexOf(s, d, 1) IN
    IF i = 0 THEN << s >>
    ELSE << SubSeq(s, 1, i - 1) >> \o Split(SubSeq(s, i + 1, Len(s)), d)

\* strings.join(sep)
RECURSIVE Join(_, _, _)
Join(strings, sep, i) ==
    IF i > Len(strings) THEN << >>
    ELSE strings[i] \o (IF i < Len(strings) THEN sep ELSE << >>) \o Join(strings, sep, i + 1)

\* the values undefined, null and the number 0; a value is falsy when it
\* is one of them or the empty string
Undefined == "<undefined>"
Null == "<null>"
Zero == "<0>"

Falsy(v) == v \in {Undefined, Null, Zero, ""}

\* obj[k], undefined when obj has no key k
Get(obj, k) == IF k \in DOMAIN obj THEN obj[k] ELSE Undefined

\* the elements of an array
Range(seq) == { seq[i] : i \in 1..Len(seq) }

\* {} : an object without keys
EmptyObject == [k \in {} |-> k]

\* all strings over the characters A of length at most n
RECURSIVE StringsOver(_, _)
StringsOver(A, n) ==
    IF n = 0 THEN { << >> }
    ELSE LET shorter == StringsOver(A, n - 1) IN
         shorter \cup { Append(s, c) : s \in { t \in shorter : Len(t) = n - 1 }, c \in A }

\* all strings over Alphabet of length at most n
RECURSIVE StringsUpTo(_)
StringsUpTo(n) ==
    IF n = 0 THEN { << >> }
    ELSE LET shorter == StringsUpTo(n - 1) IN
         shorter \cup { Append(s, c) : s \in { t \in shorter : Len(t) = n - 1 }, c \in Alphabet }

(***************************************************************************)
(* The association graph (Model.associations of the ORM models)            *)
(***************************************************************************)
Texture == << "T" >>
Image == << "I" >>
Material == << "M" >>
TextureType == << "T", "T" >>
MaterialType == << "M", "T" >>

\* the models a path is resolved against
RootModels == {"Material", "Texture"}

\* Object.values(Model.associations): alias `as` and target model, in order
associations(model) ==
    CASE model = "Material" ->
            << [as |-> Texture, target |-> "Texture"],
               [as |-> Image, target |-> "Image"],
               [as |-> MaterialType, target |-> "MaterialType"] >>
      [] model = "Texture" ->
            << [as |-> Material, target |-> "Material"],
               [as |-> Image, target |-> "Image"],
               [as |-> TextureType, target |-> "TextureType"] >>
      [] model = "TextureType" ->
            << [as |-> Texture, target |-> "Texture"] >>
      [] model = "Image" ->
            << [as |-> Material, target |-> "Material"],
               [as |-> Texture, target |-> "Texture"] >>
      [] model = "MaterialType" ->
            << [as |-> Material, target |-> "Material"] >>
      [] OTHER -> << >>

\* the paths of the documented examples, beyond the enumerated strings
ExamplePaths ==
    { Texture \o <<".">> \o TextureType \o <<":">> \o Image \o <<",">> \o MaterialType,
      Texture \o <<".">> \o Image \o <<":">> \o TextureType \o <<",">> \o Image,
      Texture \o <<",">> \o Texture }

(***************************************************************************)
(* ApiRequestError                                                         *)
(***************************************************************************)
NoError == [message |-> << >>, status |-> 0]

ApiRequestError(message, status) == [message |-> message, status |-> status]

(***************************************************************************)
(* ParamsBuilder.filterAssociations                                        *)
(***************************************************************************)
\* associations.find(a => a.as === as): index of the first match, 0 if none
RECURSIVE FindAs(_, _, _)
FindAs(assocs, as, i) ==
    IF i > Len(assocs) THEN 0
    ELSE IF assocs[i].as = as THEN i
    ELSE FindAs(assocs, as, i + 1)

\* getAssociation without its throw: an unknown alias yields an undefined target
getAssociationLenient(assocs, as) ==
    LET i == FindAs(assocs, as, 1) IN
    [err |-> NoError, target |-> IF i = 0 THEN "" ELSE assocs[i].target]

\* getAssociation throwing the message of filterAssociation, which lists
\* the aliases of the scope
getAssociationListing(assocs, as) ==
    LET i == FindAs(assocs, as, 1) IN
    IF i = 0
    THEN [err |-> ApiRequestError(
                    << "No association found with name ", as,
                       ". Possible associations are: ",
                       Join([j \in 1..Len(assocs) |-> assocs[j].as], << ",", " " >>, 1),
                       ";" >>, 400),
          target |-> ""]
    ELSE [err |-> NoError, target |-> assocs[i].target]

\* the inner getAssociation: the target model, or the thrown error
getAssociation(assocs, as) ==
    LET i == FindAs(assocs, as, 1) IN
    IF i = 0
    THEN [err |-> ApiRequestError(<< "Invalid association: ", as >>, 400), target |-> ""]
    ELSE [err |-> NoError, target |-> assocs[i].target]

\* the inner loop with unshift in place of push: children in reverse order
RECURSIVE SubResultsReversed(_, _, _, _)
SubResultsReversed(subassocs, names, j, acc) ==
    IF j > Len(names) THEN [err |-> NoError, value |-> acc]
    ELSE LET sub == getAssociation(subassocs, names[j]) IN
         IF sub.err # NoError THEN [err |-> sub.err, value |-> << >>]
         ELSE SubResultsReversed(subassocs, names, j + 1,
                                 << [model |-> sub.target, as |-> names[j]] >> \o acc)

\* the inner loop over subassociationsNames: subresults, or the first error
RECURSIVE SubResults(_, _, _, _)
SubResults(subassocs, names, j, acc) ==
    IF j > Len(names) THEN [err |-> NoError, value |-> acc]
    ELSE LET sub == getAssociation(subassocs, names[j]) IN
         IF sub.err # NoError THEN [err |-> sub.err, value |-> << >>]
         ELSE SubResults(subassocs, names, j + 1,
                         Append(acc, [model |-> sub.target, as |-> names[j]]))

\* the outer loop giving an alias written without '.' every association of
\* its target as a child
RECURSIVE ResultsExpanding(_, _, _, _)
ResultsExpanding(direct, requested, i, acc) ==
    IF i > Len(requested) THEN [err |-> NoError, value |-> acc]
    ELSE
      LET requestArray == Split(requested[i], ".")
          hasSubassociations == Len(requestArray) > 1
          associationName == IF hasSubassociations THEN requestArray[1] ELSE requested[i]
          association == getAssociation(direct, associationName)
      IN
      IF association.err # NoError THEN [err |-> association.err, value |-> << >>]
      ELSE LET subassocs == associations(association.target)
               names == IF hasSubassociations THEN Split(requestArray[2], ":")
                        ELSE [j \in 1..Len(subassocs) |-> subassocs[j].as]
               sub == SubResults(subassocs, names, 1, << >>)
           IN IF sub.err # NoError THEN [err |-> sub.err, value |-> << >>]
              ELSE ResultsExpanding(direct, requested, i + 1,
                                    Append(acc, [model |-> association.target,
                                                 as |-> associationName,
                                                 include |-> sub.value]))

\* the outer loop over requestedAssociations: results, or the first error
RECURSIVE Results(_, _, _, _)
Results(direct, requested, i, acc) ==
    IF i > Len(requested) THEN [err |-> NoError, value |-> acc]
    ELSE
      LET requestArray == Split(requested[i], ".")
          hasSubassociations == Len(requestArray) > 1
          associationName == IF hasSubassociations THEN requestArray[1] ELSE requested[i]
          association == getAssociation(direct, associationName)
      IN
      IF association.err # NoError THEN [err |-> association.err, value |-> << >>]
      ELSE IF hasSubassociations
      THEN LET sub == SubResults(associations(association.target),
                                 Split(requestArray[2], ":"), 1, << >>) IN
           IF sub.err # NoError THEN [err |-> sub.err, value |-> << >>]
           ELSE Results(direct, requested, i + 1,
                        Append(acc, [model |-> association.target,
                                     as |-> associationName,
                                     include |-> sub.value]))
      ELSE Results(direct, requested, i + 1,
                   Append(acc, [model |-> association.target, as |-> associationName]))

\* the value of `results` for a model and an include string, or the error
filterAssociationsResult(Model, includeValue) ==
    Results(associations(Model), Split(includeValue, ","), 1, << >>)

(***************************************************************************)
(* CrudAPIUtils.getIncludeString                                           *)
(***************************************************************************)
\* the inner loop joining the children with ',' in place of ':'
RECURSIVE IncludeChildrenComma(_, _)
IncludeChildrenComma(include, j) ==
    IF j > Len(include) THEN << >>
    ELSE include[j] \o (IF j < Len(include) THEN << "," >> ELSE << >>)
         \o IncludeChildrenComma(include, j + 1)

\* the inner loop over includeArray[i].include
RECURSIVE IncludeChildren(_, _)
IncludeChildren(include, j) ==
    IF j > Len(include) THEN << >>
    ELSE include[j] \o (IF j < Len(include) THEN << ":" >> ELSE << >>)
         \o IncludeChildren(include, j + 1)

\* the outer loop over includeArray; entries are [model] or [model, include]
RECURSIVE IncludeEntries(_, _)
IncludeEntries(includeArray, i) ==
    IF i > Len(includeArray) THEN [err |-> << >>, str |-> << >>]
    ELSE
      LET entry == includeArray[i] IN
      IF entry.model = << >>
      THEN [err |-> << "Include parameter must have a model property." >>, str |-> << >>]
      ELSE
        LET own == entry.model
                   \o (IF "include" \in DOMAIN entry
                       THEN << "." >> \o IncludeChildren(entry.include, 1)
                       ELSE << >>)
                   \o (IF i < Len(includeArray) THEN << "," >> ELSE << >>)
            rest == IncludeEntries(includeArray, i + 1)
        IN IF rest.err # << >> THEN rest ELSE [err |-> << >>, str |-> own \o rest.str]

getIncludeString(includeArray) == IncludeEntries(includeArray, 1)

\* the client's include array for a resolved tree: each node's alias as
\* `model`, its children's aliases as `include`
ClientInclude(tree) ==
    [i \in 1..Len(tree) |->
        IF "include" \in DOMAIN tree[i]
        THEN [model |-> tree[i].as,
              include |-> [j \in 1..Len(tree[i].include) |-> tree[i].include[j].as]]
        ELSE [model |-> tree[i].as]]

(***************************************************************************)
(* ParamsBuilder: constructor and filterProperties                         *)
(***************************************************************************)
\* the constructor's loop testing `params[key] === undefined` only
RECURSIVE RequiredErrorAbsentOnly(_, _, _)
RequiredErrorAbsentOnly(params, requiredProperties, i) ==
    IF i > Len(requiredProperties) THEN [message |-> << >>, status |-> 0]
    ELSE IF Get(params, requiredProperties[i]) = Undefined
         THEN ApiRequestError(<< "No ", requiredProperties[i], " provided." >>, 400)
         ELSE RequiredErrorAbsentOnly(params, requiredProperties, i + 1)

\* the constructor's loop over requiredProperties: the error it throws for
\* the first key whose value is falsy, or none
RECURSIVE RequiredError(_, _, _)
RequiredError(params, requiredProperties, i) ==
    IF i > Len(requiredProperties) THEN NoError
    ELSE IF Falsy(Get(params, requiredProperties[i]))
         THEN ApiRequestError(<< "No ", requiredProperties[i], " provided." >>, 400)
         ELSE RequiredError(params, requiredProperties, i + 1)

\* filterProperties(properties) without a prefix: the listed keys whose
\* input value is not undefined, spread over the output
filterProperties(input, output, properties) ==
    LET kept == { k \in Range(properties) : Get(input, k) # Undefined } IN
    [k \in kept |-> input[k]] @@ output

\* filterProperties keeping every listed key, null when the input lacks it
filterPropertiesNulls(input, output, properties, prefix) ==
    LET filteredProps == [k \in Range(properties) |->
                             IF Get(input, k) = Undefined THEN Null ELSE input[k]]
    IN IF Falsy(prefix) THEN filteredProps @@ output
       ELSE (prefix :> filteredProps) @@ output

\* filterProperties spreading outputParams over the filtered properties,
\* and keeping what outputParams[prefix] held
filterPropertiesUnderlay(input, output, properties, prefix) ==
    LET kept == { k \in Range(properties) : Get(input, k) # Undefined }
        filteredProps == [k \in kept |-> input[k]]
    IN IF Falsy(prefix) THEN output @@ filteredProps
       ELSE output @@ (prefix :> filteredProps)

\* filterProperties(properties, prefix): the outputParams it leaves
filterPropertiesWithPrefix(input, output, properties, prefix) ==
    LET kept == { k \in Range(properties) : Get(input, k) # Undefined }
        filteredProps == [k \in kept |-> input[k]]
    IN IF Falsy(prefix) THEN filteredProps @@ output
       ELSE (prefix :> filteredProps) @@ output

\* what the runtime throws on a property read or method call of undefined
BuilderTypeError == [message |-> << "TypeError" >>, status |-> 0]

\* the reduce of filterStringObjectArray: acc[objArr[0]] = objArr[1] for
\* each item in order, a later item overwriting an earlier key
StringObject(arr) ==
    LET key(i) == Split(arr[i], ":")[1]
        value(i) == LET objArr == Split(arr[i], ":") IN
                    IF Len(objArr) > 1 THEN objArr[2] ELSE Undefined
        last(k) == CHOOSE i \in 1..Len(arr) :
                      /\ key(i) = k
                      /\ \A j \in (i + 1)..Len(arr) : key(j) # k
    IN [k \in { key(i) : i \in 1..Len(arr) } |-> value(last(k))]

\* the reduce writing acc[objArr[1]] = objArr[0]
filterStringObjectArraySwapped(input, output, keyName, prefix) ==
    IF keyName \notin DOMAIN input
    THEN [err |-> BuilderTypeError, output |-> output]
    ELSE LET arr == Split(input[keyName], ",")
             key(i) == LET objArr == Split(arr[i], ":") IN
                       IF Len(objArr) > 1 THEN objArr[2] ELSE << >>
             obj == [k \in { key(i) : i \in 1..Len(arr) } |->
                        Split(arr[CHOOSE i \in 1..Len(arr) : key(i) = k], ":")[1]]
         IN [err |-> [message |-> << >>, status |-> 0], output |-> (prefix :> obj) @@ output]

\* filterStringObjectArray(keyName, prefix) when skipIf() is false: the
\* error it throws, or none, and the outputParams it leaves
filterStringObjectArray(input, output, keyName, prefix) ==
    IF keyName \notin DOMAIN input
    THEN [err |-> BuilderTypeError, output |-> output]
    ELSE LET arr == Split(input[keyName], ",")
         IN [err |-> NoError, output |-> (prefix :> StringObject(arr)) @@ output]

\* filterAssociation writing the name without looking it up
filterAssociationAny(Model, output, associationName) ==
    [err |-> [message |-> << >>, status |-> 0],
     output |-> ("include" :> associationName) @@ output]

\* filterAssociation(Model, associationName) when skipIf() is false
filterAssociation(Model, output, associationName) ==
    LET assocs == associations(Model) IN
    IF FindAs(assocs, associationName, 1) = 0
    THEN [err |-> ApiRequestError(
                    << "No association found with name ", associationName,
                       ". Possible associations are: ",
                       Join([i \in 1..Len(assocs) |-> assocs[i].as], << ",", " " >>, 1),
                       ";" >>, 400),
          output |-> output]
    ELSE [err |-> NoError, output |-> ("include" :> associationName) @@ output]

(***************************************************************************)
(* The data layer (the ORM Model) and the file storage                     *)
(***************************************************************************)
ModelName == "Material"
foreignKeyName == "uuid"

Keys == 1..MaxRows

\* the columns a row gets from the data layer when create does not set them
RowDefaults == [name |-> Null, role |-> "user", image |-> Null]

\* Model.create(values): the dataValues of the new row
ModelCreate(key, values) == values @@ (foreignKeyName :> key) @@ RowDefaults

\* a count that a filter on the name reduces
ModelCountWhere(t) == Cardinality({ k \in DOMAIN t : t[k].name = "Foam" })

\* Model.count()
ModelCount(t) == Cardinality(DOMAIN t)

\* Model.findOne({ where: { [foreignKeyName]: pk } }): << row >> or << >>
ModelFindOne(t, pk) == IF pk \in DOMAIN t THEN << t[pk] >> ELSE << >>

\* the rows in key order, from key k on
RECURSIVE RowsFrom(_, _)
RowsFrom(t, k) ==
    IF k > MaxRows THEN << >>
    ELSE (IF k \in DOMAIN t THEN << t[k] >> ELSE << >>) \o RowsFrom(t, k + 1)

\* the pairs << value, q >> for which value is like %q%
Substrings == { << "Foam", "oa" >>, << "Foam", "a" >>, << "Oak", "a" >> }

\* whether a row satisfies query.where: every plain key equal, and some
\* clause of $or matching
RowMatches(row, where) ==
    /\ \A k \in DOMAIN where \ {"$or"} : Get(row, k) = where[k]
    /\ "$or" \in DOMAIN where =>
         \E i \in 1..Len(where["$or"]) :
            << Get(row, where["$or"][i].prop), where["$or"][i].like >> \in Substrings

\* Model.findAll({ ...query, offset })
ModelFindAll(t, query) ==
    LET all == SelectSeq(RowsFrom(t, 1),
                         LAMBDA r : "where" \in DOMAIN query => RowMatches(r, query["where"]))
        last == IF query["offset"] + query["limit"] < Len(all)
                THEN query["offset"] + query["limit"] ELSE Len(all)
    IN SubSeq(all, query["offset"] + 1, last)

\* the URL the storage returns for an uploaded file
FileUrl == "https://cdn/a.png"

\* what the storage collaborator throws when it fails
StorageError == [message |-> << "storage failure" >>, status |-> 0]

\* what the runtime throws on a property read of null or undefined
TypeError == [message |-> << "TypeError" >>, status |-> 0]

(***************************************************************************)
(* CrudService                                                             *)
(***************************************************************************)
Ops == {"find", "findAll", "create", "update", "destroy"}

\* the limit used when neither the argument nor the options give one
DefaultLimit == 10

\* the constructor keyed destroy on options.destroy: delete is ignored
MembersDestroyKey(opts) ==
    (IF "find" \in DOMAIN opts THEN {"find"} ELSE {})
    \cup (IF "findAll" \in DOMAIN opts THEN {"findAll"} ELSE {})
    \cup (IF "create" \in DOMAIN opts THEN {"create"} ELSE {})
    \cup (IF "update" \in DOMAIN opts THEN {"update"} ELSE {})
    \cup (IF "destroy" \in DOMAIN opts THEN {"destroy"} ELSE {})

\* the constructor: `if (options.x) this.x = ...`, every supplied value
\* of the options schema being truthy
Members(opts) ==
    (IF "find" \in DOMAIN opts THEN {"find"} ELSE {})
    \cup (IF "findAll" \in DOMAIN opts THEN {"findAll"} ELSE {})
    \cup (IF "create" \in DOMAIN opts THEN {"create"} ELSE {})
    \cup (IF "update" \in DOMAIN opts THEN {"update"} ELSE {})
    \cup (IF "delete" \in DOMAIN opts THEN {"destroy"} ELSE {})

\* the constructor's write to the options it was given
ConstructorOptions(opts) ==
    IF "update" \in DOMAIN opts /\ "requiredProperties" \notin DOMAIN opts["update"]
    THEN [opts EXCEPT !["update"] = ("requiredProperties" :> << >>) @@ @]
    ELSE opts

\* arrayToDto returning the body itself
arrayToDtoWhole(properties, body) == body

\* CrudService.arrayToDto
arrayToDto(properties, body) == [k \in Range(properties) |-> Get(body, k)]

MissingKeyError == ApiRequestError(<< "No ", foreignKeyName, " provided." >>, 400)

NotFoundError(pk) ==
    ApiRequestError(<< "No ", ModelName, " found with ", foreignKeyName, " ", pk, "." >>, 400)

UploadNotConfigured == ApiRequestError(<< "No upload configuration provided." >>, 400)

\* what an invocation did: the error it threw (or none), the value it
\* returned, the data-layer and storage calls it made, the rows it left
Outcome(err, ret, db, storage, t) ==
    [err |-> err, ret |-> ret, db |-> db, storage |-> storage, table |-> t]

\* find looking a falsy key up like any other
FindOutcomeAnyKey(opts, t, pk) ==
    LET result == ModelFindOne(t, pk)
        db == << [fn |-> "findOne", pk |-> pk] >>
    IN IF result = << >> THEN Outcome(NotFoundError(pk), Undefined, db, << >>, t)
       ELSE IF "dto" \in DOMAIN opts["find"]
       THEN Outcome(NoError, arrayToDto(opts["find"].dto, result[1]), db, << >>, t)
       ELSE Outcome(NoError, result[1], db, << >>, t)

\* this.find(pk), called without include
FindOutcome(opts, t, pk) ==
    IF pk = 0 THEN Outcome(MissingKeyError, Undefined, << >>, << >>, t)
    ELSE
      LET result == ModelFindOne(t, pk)
          db == << [fn |-> "findOne", pk |-> pk] >>
      IN IF result = << >> THEN Outcome(NotFoundError(pk), Undefined, db, << >>, t)
         ELSE IF "dto" \in DOMAIN opts["find"]
         THEN Outcome(NoError, arrayToDto(opts["find"].dto, result[1]), db, << >>, t)
         ELSE Outcome(NoError, result[1], db, << >>, t)

\* Math.floor in place of Math.ceil
MathFloorDiv(count, limit) == count \div limit

\* Math.ceil(count / limit) for a positive limit
MathCeilDiv(count, limit) == (count + limit - 1) \div limit

\* the page findAll uses: the default parameter value 1 for an omitted
\* argument, then parseInt, then the fallback for a page below 1
FindAllPage(fa, page) ==
    LET given == IF page = << >> THEN 1 ELSE page[1] IN
    IF given < 1
    THEN (IF "defaultPage" \in DOMAIN fa /\ fa.defaultPage # 0 THEN fa.defaultPage ELSE 1)
    ELSE given

\* query.limit = parseInt(limit) || options.findAll.defaultLimit || 10
FindAllLimit(fa, limit) ==
    IF limit # << >> /\ limit[1] # 0 THEN limit[1]
    ELSE IF "defaultLimit" \in DOMAIN fa /\ fa.defaultLimit # 0 THEN fa.defaultLimit
    ELSE DefaultLimit

\* the where mapping taking the place of the search filter
ReplaceWhere(searchWhere, where) == where

\* query.where = { ...query.where, ...where }
MergeWhere(searchWhere, where) == where @@ searchWhere

\* this.findAll(limit, page, q, where), called without include; an omitted
\* limit, page or where is << >>, a given one << value >>
FindAllOutcome(opts, t, limit, page, q, where) ==
    LET fa == opts["findAll"]
        queryLimit == FindAllLimit(fa, limit)
        usedPage == FindAllPage(fa, page)
        search == ~Falsy(q)
        searchWhere ==
            IF search /\ "searchProperties" \in DOMAIN fa
            THEN "$or" :> [i \in 1..Len(fa.searchProperties) |->
                              [prop |-> fa.searchProperties[i], like |-> q]]
            ELSE EmptyObject
        badKeys ==
            IF where = << >> THEN {}
            ELSE { k \in DOMAIN where[1] :
                     "whereProperties" \notin DOMAIN fa \/ k \notin Range(fa.whereProperties) }
        queryWhere == IF where = << >> THEN searchWhere
                      ELSE MergeWhere(searchWhere, where[1])
        hasWhere == (search \/ where # << >>)
        offset == (usedPage - 1) * queryLimit
        query == (IF hasWhere THEN "where" :> queryWhere ELSE EmptyObject)
                 @@ ("limit" :> queryLimit) @@ ("offset" :> offset)
        count == ModelCount(t)
        pages == MathCeilDiv(count, queryLimit)
        rows == ModelFindAll(t, query)
        db == << [fn |-> "count"], [fn |-> "findAll", query |-> query] >>
    IN
    IF search /\ "searchProperties" \notin DOMAIN fa
    THEN Outcome(ApiRequestError(<< "No search properties are defined." >>, 400),
                 Undefined, << >>, << >>, t)
    ELSE IF badKeys # {} /\ "whereProperties" \notin DOMAIN fa
    THEN Outcome(TypeError, Undefined, << >>, << >>, t)
    ELSE IF badKeys # {}
    THEN Outcome(ApiRequestError(<< "Invalid where property ",
                                    CHOOSE k \in badKeys : TRUE, "." >>, 400),
                 Undefined, << >>, << >>, t)
    ELSE IF "dto" \in DOMAIN fa
    THEN Outcome(NoError,
                 [count |-> count, pages |-> pages,
                  rows |-> [i \in 1..Len(rows) |-> arrayToDto(fa.dto, rows[i])]],
                 db, << >>, t)
    ELSE Outcome(NoError, [count |-> count, pages |-> pages, rows |-> rows],
                 db, << >>, t)

\* the storage calls of an upload loop over n files of which the failAt-th
\* throws (0: none does)
StorageCalls(fn, keys, failAt) ==
    LET n == IF failAt = 0 \/ failAt > Len(keys) THEN Len(keys) ELSE failAt IN
    [i \in 1..n |-> [fn |-> fn, key |-> keys[i]]]

\* the sources object an upload loop builds: field i gets the URL of file i
UploadSources(fields, n) == [f \in { fields[i] : i \in 1..n } |-> FileUrl]

\* the steps after the row is persisted, destroying the row again when the
\* upload fails
AfterPersistRollback(opts, op, t, pk, row, db, files, fn, keys, failAt) ==
    LET project(r) == IF "dto" \in DOMAIN opts[op] THEN arrayToDto(opts[op].dto, r) ELSE r
        t1 == (pk :> row) @@ t
        undo == Append(db, [fn |-> "destroy", pk |-> pk])
    IN
    IF files = << >> THEN Outcome(NoError, project(row), db, << >>, t1)
    ELSE IF "upload" \notin DOMAIN opts
    THEN Outcome(UploadNotConfigured, Undefined, undo, << >>, t)
    ELSE IF failAt # 0 /\ failAt <= Len(files[1])
    THEN Outcome(StorageError, Undefined, undo, StorageCalls(fn, keys, failAt), t)
    ELSE LET sources == UploadSources(opts["upload"].fields, Len(files[1]))
             row2 == sources @@ row
         IN Outcome(NoError, project(row2),
                    Append(db, [fn |-> "update", pk |-> pk, values |-> sources]),
                    StorageCalls(fn, keys, 0), (pk :> row2) @@ t)

\* the steps of create and update after the row `row` with key pk is
\* persisted: the upload of the files, then the DTO projection
AfterPersist(opts, op, t, pk, row, db, files, fn, keys, failAt) ==
    LET project(r) == IF "dto" \in DOMAIN opts[op] THEN arrayToDto(opts[op].dto, r) ELSE r
        t1 == (pk :> row) @@ t
    IN
    IF files = << >> THEN Outcome(NoError, project(row), db, << >>, t1)
    ELSE IF "upload" \notin DOMAIN opts
    THEN Outcome(UploadNotConfigured, Undefined, db, << >>, t1)
    ELSE IF failAt # 0 /\ failAt <= Len(files[1])
    THEN Outcome(StorageError, Undefined, db, StorageCalls(fn, keys, failAt), t1)
    ELSE LET sources == UploadSources(opts["upload"].fields, Len(files[1]))
             row2 == sources @@ row
         IN Outcome(NoError, project(row2),
                    Append(db, [fn |-> "update", pk |-> pk, values |-> sources]),
                    StorageCalls(fn, keys, 0), (pk :> row2) @@ t)

\* create persisting the row before it checks the required properties
CreateOutcomeLate(opts, t, params, files, newKey, failAt) ==
    LET properties == filterProperties(params, EmptyObject, opts["create"].properties)
        row == ModelCreate(newKey, properties)
        db == << [fn |-> "create", values |-> properties] >>
        keys == [i \in 1..(IF files = << >> THEN 0 ELSE Len(files[1])) |->
                    << newKey, "_", files[1][i].originalname >>]
        requiredError == RequiredError(params, opts["create"].properties, 1)
    IN IF requiredError # NoError
       THEN Outcome(requiredError, Undefined, db, << >>, (newKey :> row) @@ t)
       ELSE AfterPersist(opts, "create", t, newKey, row, db, files, "uploadFile", keys, failAt)

\* this.create(params, null, files); newKey is the key the data layer
\* gives the row; an omitted files is << >>, a given one << files >>
CreateOutcome(opts, t, params, files, newKey, failAt) ==
    LET requiredError == RequiredError(params, opts["create"].properties, 1)
        properties == filterProperties(params, EmptyObject, opts["create"].properties)
        row == ModelCreate(newKey, properties)
        db == << [fn |-> "create", values |-> properties] >>
        keys == [i \in 1..(IF files = << >> THEN 0 ELSE Len(files[1])) |->
                    << newKey, "_", files[1][i].originalname >>]
    IN IF requiredError # NoError
       THEN Outcome(requiredError, Undefined, << >>, << >>, t)
       ELSE AfterPersist(opts, "create", t, newKey, row, db, files, "uploadFile", keys, failAt)

\* update writing the properties without looking the row up
UpdateOutcomeUpsert(opts, t, pk, params, files, failAt) ==
    LET properties == filterProperties(params, EmptyObject, opts["update"].properties)
        row == properties @@ (IF pk \in DOMAIN t THEN t[pk] ELSE ModelCreate(pk, EmptyObject))
        db == << [fn |-> "update", pk |-> pk, values |-> properties] >>
        requiredError == RequiredError(params, opts["update"].requiredProperties, 1)
    IN IF requiredError # NoError
       THEN Outcome(requiredError, Undefined, << >>, << >>, t)
       ELSE Outcome(NoError, row, db, << >>, (pk :> row) @@ t)

\* update looking the row up before the builder checks the required
\* properties
UpdateOutcomeLookupFirst(opts, t, pk, params, files, failAt) ==
    LET requiredError == RequiredError(params, opts["update"].requiredProperties, 1)
        properties == filterProperties(params, EmptyObject, opts["update"].properties)
        entity == ModelFindOne(t, pk)
        find == << [fn |-> "findOne", pk |-> pk] >>
    IN IF entity = << >>
       THEN Outcome(NotFoundError(pk), Undefined, find, << >>, t)
       ELSE IF requiredError # NoError
       THEN Outcome(requiredError, Undefined, find, << >>, t)
       ELSE LET row == properties @@ entity[1]
                db == Append(find, [fn |-> "update", pk |-> pk, values |-> properties])
                keys == [i \in 1..(IF files = << >> THEN 0 ELSE Len(files[1])) |->
                            << "parseKey", pk >>]
            IN AfterPersist(opts, "update", t, pk, row, db, files, "updateFile", keys, failAt)

\* this.update(foreignKey, params, null, files)
UpdateOutcome(opts, t, pk, params, files, failAt) ==
    LET requiredError == RequiredError(params, opts["update"].requiredProperties, 1)
        properties == filterProperties(params, EmptyObject, opts["update"].properties)
        entity == ModelFindOne(t, pk)
        find == << [fn |-> "findOne", pk |-> pk] >>
    IN IF requiredError # NoError
       THEN Outcome(requiredError, Undefined, << >>, << >>, t)
       ELSE IF entity = << >>
       THEN Outcome(NotFoundError(pk), Undefined, find, << >>, t)
       ELSE LET row == properties @@ entity[1]
                db == Append(find, [fn |-> "update", pk |-> pk, values |-> properties])
                keys == [i \in 1..(IF files = << >> THEN 0 ELSE Len(files[1])) |->
                            << "parseKey", pk >>]
            IN AfterPersist(opts, "update", t, pk, row, db, files, "updateFile", keys, failAt)

\* destroy resolving without destroying the row
DestroyOutcomeKeep(opts, t, pk, failAt) ==
    IF pk = 0 THEN Outcome(MissingKeyError, Undefined, << >>, << >>, t)
    ELSE IF pk \notin DOMAIN t
    THEN Outcome(TypeError, Undefined, << [fn |-> "findOne", pk |-> pk] >>, << >>, t)
    ELSE Outcome(NoError, Undefined, << [fn |-> "findOne", pk |-> pk] >>, << >>, t)

\* this.destroy(foreignKey); the failAt-th deleteFile throws (0: none)
DestroyOutcome(opts, t, pk, failAt) ==
    IF pk = 0 THEN Outcome(MissingKeyError, Undefined, << >>, << >>, t)
    ELSE
      LET result == ModelFindOne(t, pk)
          db == << [fn |-> "findOne", pk |-> pk] >>
      IN
      IF result = << >> THEN Outcome(TypeError, Undefined, db, << >>, t)
      ELSE
        LET stored == IF "upload" \in DOMAIN opts
                      THEN SelectSeq(opts["upload"].fields,
                                     LAMBDA f : ~Falsy(Get(result[1], f)))
                      ELSE << >>
            keys == [i \in 1..Len(stored) |-> << "parseKey", result[1][stored[i]] >>]
        IN IF failAt # 0 /\ failAt <= Len(stored)
           THEN Outcome(StorageError, Undefined, db,
                        StorageCalls("deleteFile", keys, failAt), t)
           ELSE Outcome(NoError, Undefined,
                        Append(db, [fn |-> "destroy", pk |-> pk]),
                        StorageCalls("deleteFile", keys, 0),
                        [k \in DOMAIN t \ {pk} |-> t[k]])

(***************************************************************************)
(* The ParamsBuilder state machine                                         *)
(***************************************************************************)
\* new ParamsBuilder(params): the constructor with no required properties
NewParamsBuilder(params) ==
    /\ inputParams' = params
    /\ outputParams' = EmptyObject
    /\ pbError' = NoError
    /\ pbPc' = "built"

\* builder.filterAssociations(Model, 'include', skipIf)
FilterAssociations ==
    /\ pbPc = "built"
    /\ \E skipIf \in BOOLEAN :
         IF skipIf
         THEN /\ pbPc' = "skipped"
              /\ UNCHANGED << outputParams, pbError >>
         ELSE LET r == filterAssociationsResult(pbModel, inputParams["include"]) IN
              IF r.err # NoError
              THEN /\ pbError' = r.err
                   /\ pbPc' = "failed"
                   /\ UNCHANGED outputParams
              ELSE /\ outputParams' = ("include" :> r.value) @@ outputParams
                   /\ pbPc' = "parsed"
                   /\ UNCHANGED pbError
    /\ UNCHANGED << pbModel, inputParams, pbStep, round, sentTree, includeString >>
    /\ UNCHANGED << crudVars, apiVars >>

\* the client encodes the resolved tree: getIncludeString(include)
GetIncludeString ==
    /\ pbPc = "parsed"
    /\ round = 1
    /\ sentTree' = outputParams["include"]
    /\ includeString' = getIncludeString(ClientInclude(outputParams["include"]))
    /\ pbPc' = "encoded"
    /\ UNCHANGED << pbModel, inputParams, outputParams, pbError, pbStep, round >>
    /\ UNCHANGED << crudVars, apiVars >>

\* the encoded string arrives as the include parameter of a new request
Resend ==
    /\ pbPc = "encoded"
    /\ includeString.err = << >>
    /\ NewParamsBuilder([include |-> includeString.str])
    /\ round' = 2
    /\ UNCHANGED << pbModel, pbStep, sentTree, includeString >>
    /\ UNCHANGED << crudVars, apiVars >>

\* no builder method has been called
NoStep == [fn |-> "none"]

\* no CrudService invocation has been made
NoCall ==
    [op |-> "none", args |-> EmptyObject, err |-> NoError, ret |-> Undefined,
     db |-> << >>, storage |-> << >>]

\* no call has been made on a CrudAPI instance
NoApiCall ==
    [op |-> "none", api |-> 0, params |-> EmptyObject, err |-> << >>, request |-> << >>]

\* no CrudAPI instance takes part and no where mapping is encoded
ApiIdle ==
    /\ apis = << >>
    /\ localStorage = EmptyObject
    /\ callerParams = EmptyObject
    /\ apiCall = NoApiCall
    /\ whereObject = << >>
    /\ whereString = << >>

\* no CrudService instance takes part
CrudIdle ==
    /\ options = EmptyObject
    /\ members = {}
    /\ table = EmptyObject
    /\ call = NoCall
    /\ destroyed = {}

InitPath ==
    /\ pbModel \in RootModels
    /\ inputParams \in { [include |-> s] : s \in StringsUpTo(MaxLen) \cup ExamplePaths }
    /\ outputParams = EmptyObject
    /\ pbError = NoError
    /\ pbPc = "built"
    /\ pbStep = NoStep
    /\ round = 1
    /\ sentTree = << >>
    /\ includeString = [err |-> << >>, str |-> << >>]
    /\ CrudIdle
    /\ ApiIdle

NextPath ==
    \/ FilterAssociations
    \/ GetIncludeString
    \/ Resend

SpecPath == InitPath /\ [][NextPath]_vars

(***************************************************************************)
(* The CrudService state machine                                           *)
(***************************************************************************)
\* the keys of an object restricted to a set
Restrict(obj, S) == [k \in S |-> obj[k]]

OptionKeys == {"find", "findAll", "create", "update", "delete", "upload"}

\* an options object with the fewest settings per operation
PlainOptions ==
    [find |-> EmptyObject,
     findAll |-> EmptyObject,
     create |-> [properties |-> << "name" >>],
     update |-> [properties |-> << "name" >>],
     delete |-> TRUE,
     upload |-> [fields |-> << "image" >>]]

\* an options object with every setting of the schema
FullOptions ==
    [find |-> [dto |-> << "uuid", "name" >>],
     findAll |-> [searchProperties |-> << "name" >>, whereProperties |-> << "name" >>,
                  defaultLimit |-> 2, defaultPage |-> 2, dto |-> << "uuid", "name" >>],
     create |-> [properties |-> << "name", "role" >>, dto |-> << "uuid", "name" >>],
     update |-> [properties |-> << "name" >>, requiredProperties |-> << "name" >>,
                 dto |-> << "uuid", "name" >>],
     delete |-> TRUE,
     upload |-> [fields |-> << "image" >>]]

\* the options objects of the lifecycle machine: any subset of the keys
CrudOptions ==
    { Restrict(o, S) : o \in {PlainOptions, FullOptions}, S \in SUBSET OptionKeys }

\* the rows the data layer holds when the service is constructed
InitialTables ==
    { [k \in S |-> ModelCreate(k, [name |-> IF k = 1 THEN "Foam" ELSE "Oak"])] :
        S \in { {}, {1}, Keys } }

\* the arguments the operations are called with
PkArgs == 0..MaxRows

ParamsArgs ==
    { Restrict([name |-> n, role |-> "admin"], S) :
        n \in {"", "Foam", "Oak"}, S \in SUBSET {"name", "role"} }

FilesArgs == { << >>, << << [originalname |-> "a.png"] >> >> }

LimitArgs == { << >> } \cup { << n >> : n \in 0..MaxLimit }

PageArgs == { << >> } \cup { << n >> : n \in (-1)..MaxPage }

QArgs == { Null, "oa" }

WhereArgs == { << >>, << EmptyObject >>, << [name |-> "Foam"] >>, << [role |-> "admin"] >> }

\* the record of an invocation
Called(op, args, o) ==
    [op |-> op, args |-> args, err |-> o.err, ret |-> o.ret,
     db |-> o.db, storage |-> o.storage]

\* service.find(pk)
Find ==
    /\ call.op = "none"
    /\ "find" \in members
    /\ \E pk \in PkArgs :
         call' = Called("find", [pk |-> pk], FindOutcome(options, table, pk))
    /\ UNCHANGED << options, members, table, destroyed >>
    /\ UNCHANGED << pathVars, apiVars >>

\* service.findAll(limit, page, q, where)
FindAll(limit, page, q, where) ==
    /\ call.op = "none"
    /\ "findAll" \in members
    /\ call' = Called("findAll", [limit |-> limit, page |-> page, q |-> q, where |-> where],
                      FindAllOutcome(options, table, limit, page, q, where))
    /\ UNCHANGED << options, members, table, destroyed >>
    /\ UNCHANGED << pathVars, apiVars >>

\* service.create(params, null, files); the data layer has a free key
Create ==
    /\ call.op = "none"
    /\ "create" \in members
    /\ \E params \in ParamsArgs, files \in FilesArgs, newKey \in Keys \ DOMAIN table,
          failAt \in 0..1 :
         LET o == CreateOutcome(options, table, params, files, newKey, failAt) IN
         /\ call' = Called("create", [pk |-> newKey, params |-> params, files |-> files], o)
         /\ table' = o.table
         /\ destroyed' = destroyed \ DOMAIN o.table
    /\ UNCHANGED << options, members >>
    /\ UNCHANGED << pathVars, apiVars >>

\* service.update(pk, params, null, files)
Update ==
    /\ call.op = "none"
    /\ "update" \in members
    /\ \E pk \in PkArgs, params \in ParamsArgs, files \in FilesArgs, failAt \in 0..1 :
         LET o == UpdateOutcome(options, table, pk, params, files, failAt) IN
         /\ call' = Called("update", [pk |-> pk, params |-> params, files |-> files], o)
         /\ table' = o.table
    /\ UNCHANGED << options, members, destroyed >>
    /\ UNCHANGED << pathVars, apiVars >>

\* service.destroy(pk), the failAt-th deleteFile of which throws
DestroyCall(pk, failAt) ==
    /\ call.op = "none"
    /\ "destroy" \in members
    /\ LET o == DestroyOutcome(options, table, pk, failAt) IN
         /\ call' = Called("destroy", [pk |-> pk], o)
         /\ table' = o.table
         /\ destroyed' = IF o.err = NoError THEN destroyed \cup {pk} ELSE destroyed
    /\ UNCHANGED << options, members >>
    /\ UNCHANGED << pathVars, apiVars >>

\* service.destroy(pk)
Destroy == \E pk \in PkArgs, failAt \in 0..1 : DestroyCall(pk, failAt)

\* the caller receives the outcome of the invocation it awaited
Return ==
    /\ call.op # "none"
    /\ call' = NoCall
    /\ UNCHANGED << options, members, table, destroyed >>
    /\ UNCHANGED << pathVars, apiVars >>

\* no ParamsBuilder chain takes part
PathIdle ==
    /\ pbModel = "Material"
    /\ inputParams = EmptyObject
    /\ outputParams = EmptyObject
    /\ pbError = NoError
    /\ pbPc = "idle"
    /\ pbStep = NoStep
    /\ round = 1
    /\ sentTree = << >>
    /\ includeString = [err |-> << >>, str |-> << >>]

\* new CrudService(Model, 'uuid', given)
Constructed(given) ==
    /\ options = ConstructorOptions(given)
    /\ members = Members(given)
    /\ call = NoCall
    /\ destroyed = {}

Init ==
    /\ \E given \in CrudOptions : Constructed(given)
    /\ table \in InitialTables
    /\ PathIdle
    /\ ApiIdle

Next ==
    \/ Find
    \/ \E limit \in { << >>, << 1 >> } : FindAll(limit, << >>, Null, << >>)
    \/ Create
    \/ Update
    \/ Destroy
    \/ Return

Spec == Init /\ [][Next]_vars

(***************************************************************************)
(* findAll alone, over every argument and findAll option                   *)
(***************************************************************************)
\* the findAll options: any subset of the settings, the search list
\* possibly empty
FindAllOptions ==
    { Restrict(fa, S) :
        fa \in { FullOptions["findAll"],
                 [FullOptions["findAll"] EXCEPT !["searchProperties"] = << >>] },
        S \in SUBSET DOMAIN FullOptions["findAll"] }

\* tables of n rows, each named Foam or Oak
FindAllTables ==
    UNION { { [k \in 1..n |-> ModelCreate(k, [name |-> names[k]])] :
                names \in [1..n -> {"Foam", "Oak"}] } : n \in 0..MaxRows }

InitFindAll ==
    /\ \E fa \in FindAllOptions : Constructed("findAll" :> fa)
    /\ table \in FindAllTables
    /\ PathIdle
    /\ ApiIdle

NextFindAll ==
    \/ \E limit \in LimitArgs, page \in PageArgs, q \in QArgs, where \in WhereArgs :
          FindAll(limit, page, q, where)
    \/ Return

SpecFindAll == InitFindAll /\ [][NextFindAll]_vars

(***************************************************************************)
(* destroy alone, on rows with two file fields                             *)
(***************************************************************************)
\* the file fields of the upload configuration, in configured order
FileFields == << "image", "thumbnail" >>

\* the options: delete, with or without an upload configuration
DestroyOptions ==
    { [delete |-> TRUE],
      [delete |-> TRUE, upload |-> [fields |-> FileFields]] }

\* the values of a file field: no file, or the URL of a stored object
FileValues == { Null, FileUrl, "https://cdn/b.png" }

\* tables whose rows hold any combination of stored files
DestroyTables ==
    UNION { { [k \in S |-> files[k] @@ ModelCreate(k, [name |-> "Foam"])] :
                files \in [S -> [image : FileValues, thumbnail : FileValues]] } :
            S \in SUBSET Keys }

InitDestroy ==
    /\ \E given \in DestroyOptions : Constructed(given)
    /\ table \in DestroyTables
    /\ PathIdle
    /\ ApiIdle

NextDestroy ==
    \/ \E pk \in PkArgs, failAt \in 0..Len(FileFields) : DestroyCall(pk, failAt)
    \/ Return

SpecDestroy == InitDestroy /\ [][NextDestroy]_vars

(***************************************************************************)
(* The ParamsBuilder chain: constructor, then filter methods               *)
(***************************************************************************)
\* the characters of enumerated key-value strings
KeyValueChars == {"a", "b", ":", ","}

\* key-value strings longer than the enumerated ones: two pairs, a key
\* given twice, a value holding a colon
KeyValueExamples ==
    { << "a", ":", "b", ",", "b", ":", "a" >>,
      << "a", ":", "b", ",", "a", ":", "a" >>,
      << "a", ":", "b", ":", "a", ",", "b", ":", "a" >> }

\* the params objects a builder is constructed with: name and role absent,
\* falsy or given, or a where string
BuilderInputs ==
    { Restrict([name |-> n, role |-> r], S) :
        n \in {Undefined, Null, "", Zero, "Foam"}, r \in {Zero, "admin"},
        S \in SUBSET {"name", "role"} }
    \cup { [where |-> w] : w \in StringsOver(KeyValueChars, MaxLen) \cup KeyValueExamples }
    \cup { [name |-> "Foam", where |-> w] : w \in KeyValueExamples }

\* the arguments the builder's methods are called with
RequiredArgs == { << >>, << "name" >>, << "name", "role" >>, << "role", "name" >> }

PropertiesArgs == { << "name" >>, << "name", "role" >>, << "role", "uuid" >> }

PrefixArgs == { Null, "data" }

AssociationArgs == { Texture, TextureType, << "X" >> }

\* the position of the chain after one more method returned
ChainNext(pc) == IF pc = "built" THEN "chained" ELSE "chained twice"

\* new ParamsBuilder(params, requiredProperties)
Construct(requiredProperties) ==
    /\ pbPc = "new"
    /\ pbStep' = [fn |-> "constructor", requiredProperties |-> requiredProperties]
    /\ outputParams' = EmptyObject
    /\ LET e == RequiredError(inputParams, requiredProperties, 1) IN
         /\ pbError' = e
         /\ pbPc' = IF e = NoError THEN "built" ELSE "failed"
    /\ UNCHANGED << pbModel, inputParams, round, sentTree, includeString >>
    /\ UNCHANGED << crudVars, apiVars >>

\* builder.filterProperties(properties, prefix)
FilterProperties(properties, prefix) ==
    /\ pbPc \in {"built", "chained"}
    /\ pbStep' = [fn |-> "filterProperties", properties |-> properties, prefix |-> prefix,
                  prev |-> pbStep]
    /\ outputParams' = filterPropertiesWithPrefix(inputParams, outputParams, properties, prefix)
    /\ pbPc' = ChainNext(pbPc)
    /\ UNCHANGED << pbModel, inputParams, pbError, round, sentTree, includeString >>
    /\ UNCHANGED << crudVars, apiVars >>

\* builder.filterStringObjectArray(keyName, prefix, () => skipIf)
FilterStringObjectArray(keyName, prefix, skipIf) ==
    /\ pbPc \in {"built", "chained"}
    /\ pbStep' = [fn |-> "filterStringObjectArray", keyName |-> keyName,
                  prefix |-> prefix, skipIf |-> skipIf, prev |-> pbStep]
    /\ IF skipIf
       THEN /\ pbPc' = ChainNext(pbPc)
            /\ UNCHANGED << outputParams, pbError >>
       ELSE LET r == filterStringObjectArray(inputParams, outputParams, keyName, prefix) IN
            /\ outputParams' = r.output
            /\ pbError' = r.err
            /\ pbPc' = IF r.err = NoError THEN ChainNext(pbPc) ELSE "failed"
    /\ UNCHANGED << pbModel, inputParams, round, sentTree, includeString >>
    /\ UNCHANGED << crudVars, apiVars >>

\* builder.filterAssociation(Model, associationName, () => skipIf)
FilterAssociation(associationName, skipIf) ==
    /\ pbPc \in {"built", "chained"}
    /\ pbStep' = [fn |-> "filterAssociation", associationName |-> associationName,
                  skipIf |-> skipIf, prev |-> pbStep]
    /\ IF skipIf
       THEN /\ pbPc' = ChainNext(pbPc)
            /\ UNCHANGED << outputParams, pbError >>
       ELSE LET r == filterAssociation(pbModel, outputParams, associationName) IN
            /\ outputParams' = r.output
            /\ pbError' = r.err
            /\ pbPc' = IF r.err = NoError THEN ChainNext(pbPc) ELSE "failed"
    /\ UNCHANGED << pbModel, inputParams, round, sentTree, includeString >>
    /\ UNCHANGED << crudVars, apiVars >>

\* builder.build()
Build ==
    /\ pbPc \in {"built", "chained", "chained twice"}
    /\ pbStep' = [fn |-> "build", ret |-> outputParams, prev |-> pbStep]
    /\ pbPc' = "finalized"
    /\ UNCHANGED << pbModel, inputParams, outputParams, pbError, round, sentTree,
                    includeString >>
    /\ UNCHANGED << crudVars, apiVars >>

InitBuilder ==
    /\ pbModel = "Material"
    /\ inputParams \in BuilderInputs
    /\ outputParams = EmptyObject
    /\ pbError = NoError
    /\ pbPc = "new"
    /\ pbStep = NoStep
    /\ round = 1
    /\ sentTree = << >>
    /\ includeString = [err |-> << >>, str |-> << >>]
    /\ CrudIdle
    /\ ApiIdle

NextBuilder ==
    \/ \E requiredProperties \in RequiredArgs : Construct(requiredProperties)
    \/ \E properties \in PropertiesArgs, prefix \in PrefixArgs :
          FilterProperties(properties, prefix)
    \/ \E skipIf \in BOOLEAN : FilterStringObjectArray("where", "where", skipIf)
    \/ \E associationName \in AssociationArgs, skipIf \in BOOLEAN :
          FilterAssociation(associationName, skipIf)
    \/ Build

SpecBuilder == InitBuilder /\ [][NextBuilder]_vars

(***************************************************************************)
(* Properties of the CrudService                                           *)
(***************************************************************************)
\* the option key that generates an operation
OptionKey(op) == IF op = "destroy" THEN "delete" ELSE op

\* C4: an operation is a member of the instance exactly when its option
\* key was supplied; with no option key there is no operation; and no
\* invocation, successful or failing, changes the members.
OperationPresence ==
    /\ [](/\ \A op \in Ops : op \in members <=> OptionKey(op) \in DOMAIN options
          /\ DOMAIN options \subseteq {"upload"} => members = {})
    /\ [][members' = members]_vars

\* C4 witness: an invocation has failed on an instance that has some of the
\* operations and lacks others
OperationPresenceWitness ==
    /\ call.op # "none"
    /\ call.err # NoError
    /\ members # {}
    /\ members # Ops

\* C5: a successful findAll with page 1 returns pages = ceil(N / L) and at
\* most L rows, L being the limit of the query, which is the limit
\* argument when that is at least 1, and N the number of rows held.
FindAllPages ==
    (call.op = "findAll" /\ call.err = NoError /\ call.args.page = << 1 >>) =>
        LET L == call.db[2].query["limit"]
            N == Cardinality(DOMAIN table)
        IN /\ L >= 1
           /\ (call.args.limit # << >> /\ call.args.limit[1] >= 1) => L = call.args.limit[1]
           /\ call.ret.pages * L >= N
           /\ (call.ret.pages - 1) * L < N
           /\ Len(call.ret.rows) <= L

\* C5 witness: findAll(limit = 2, page = 1) on one row returned one page
FindAllPagesWitness ==
    /\ call.op = "findAll"
    /\ call.err = NoError
    /\ call.args.page = << 1 >>
    /\ call.args.limit = << 2 >>
    /\ Cardinality(DOMAIN table) = 1
    /\ call.ret.pages = 1

\* C6: findAll with page 0 or a negative page makes the data-layer calls
\* and has the outcome of the same call with page omitted.
PageBelowOneAsOmitted ==
    (call.op = "findAll" /\ call.args.page \in { << 0 >>, << -1 >> }) =>
        LET omitted == FindAllOutcome(options, table, call.args.limit, << >>,
                                      call.args.q, call.args.where)
        IN /\ call.err = omitted.err
           /\ call.db = omitted.db
           /\ call.ret = omitted.ret

\* the first required property, in list order, that params lacks: << >>
\* when there is none
FirstFalsy(params, required) ==
    LET missing == SelectSeq(required, LAMBDA p : Falsy(Get(params, p)))
    IN IF missing = << >> THEN << >> ELSE << Head(missing) >>

\* the data-layer calls of an invocation that write
Writes(db) == SelectSeq(db, LAMBDA c : c.fn \in {"create", "update", "destroy"})

\* C7: create with a required property absent or falsy throws
\* "No <property> provided." with status 400, naming the first such
\* property of the list, and makes no data-layer or storage call.
CreateMissingParameter ==
    [][(/\ call'.op = "create"
        /\ FirstFalsy(call'.args.params, options["create"].properties) # << >>) =>
            /\ call'.err =
                 ApiRequestError(<< "No ",
                                    FirstFalsy(call'.args.params,
                                               options["create"].properties)[1],
                                    " provided." >>, 400)
            /\ call'.db = << >>
            /\ call'.storage = << >>
            /\ table' = table]_vars

\* C7 witness: create with name given and role missing failed naming role
CreateMissingParameterWitness ==
    /\ call.op = "create"
    /\ ~Falsy(Get(call.args.params, "name"))
    /\ call.err = ApiRequestError(<< "No ", "role", " provided." >>, 400)

\* the error an operation throws for a missing field named k
MissingField(k) == ApiRequestError(<< "No ", k, " provided." >>, 400)

\* the keys a params object of the service can hold
ParamKeys == {"uuid", "name", "role"}

\* C23: update throws "No <key> provided." (400) exactly when a key of
\* options.update.requiredProperties is absent or falsy in params, names the
\* first such key, and has then made no data-layer or storage call; with no
\* requiredProperties configured the list is empty, and update of an
\* existing row without files resolves for every subset of the properties
\* and writes the given ones.
UpdateRequiredSubset ==
    [][call'.op = "update" =>
         LET required == options["update"].requiredProperties
             missing == FirstFalsy(call'.args.params, required)
             pk == call'.args.pk
         IN /\ (missing # << >>) <=> (\E k \in ParamKeys : call'.err = MissingField(k))
            /\ missing # << >> =>
                 /\ call'.err = MissingField(missing[1])
                 /\ call'.db = << >>
                 /\ call'.storage = << >>
                 /\ table' = table
            /\ (required = << >> /\ pk \in DOMAIN table /\ call'.args.files = << >>) =>
                 /\ call'.err = NoError
                 /\ DOMAIN table' = DOMAIN table
                 /\ \A k \in DOMAIN table'[pk] :
                       table'[pk][k] =
                         IF k \in Range(options["update"].properties)
                            /\ k \in DOMAIN call'.args.params
                         THEN call'.args.params[k] ELSE table[pk][k]]_vars

\* C23 witness: update of an existing row with an empty name, which is
\* required, failed naming it before any lookup
UpdateRequiredSubsetWitness ==
    /\ call.op = "update"
    /\ call.args.pk \in DOMAIN table
    /\ options["update"].requiredProperties = << "name" >>
    /\ "name" \in DOMAIN call.args.params
    /\ call.args.params["name"] = ""
    /\ call.err = MissingField("name")
    /\ call.db = << >>

\* C24: find and destroy called with a falsy key throw "No uuid provided."
\* (400), naming the primary-key field, and make no data-layer and no
\* file-storage call: the table and the set of destroyed keys are as before.
FalsyKeyRejected ==
    [][(/\ call'.op \in {"find", "destroy"}
        /\ call'.args.pk = 0) =>
            /\ call'.err = ApiRequestError(<< "No ", foreignKeyName, " provided." >>, 400)
            /\ call'.db = << >>
            /\ call'.storage = << >>
            /\ table' = table
            /\ destroyed' = destroyed]_vars

\* C24 witness: destroy with the key 0 failed on a service with an upload
\* configuration and a table that holds rows
FalsyKeyRejectedWitness ==
    /\ call.op = "destroy"
    /\ call.args.pk = 0
    /\ "upload" \in DOMAIN options
    /\ DOMAIN table = Keys
    /\ call.err = MissingKeyError
    /\ call.db = << >>

\* C25: when create has persisted its row and then fails, on an upload that
\* throws or on files given without an upload configuration, the row is in
\* the table as created; Model.create is the only data-layer call of the
\* invocation, and no file is uploaded twice.
CreateNotRolledBack ==
    [][(/\ call'.op = "create"
        /\ call'.err # NoError
        /\ call'.db # << >>) =>
            LET pk == call'.args.pk
                properties == filterProperties(call'.args.params, EmptyObject,
                                               options["create"].properties)
            IN /\ call'.err \in {StorageError, UploadNotConfigured}
               /\ call'.db = << [fn |-> "create", values |-> properties] >>
               /\ pk \notin DOMAIN table
               /\ pk \in DOMAIN table'
               /\ table'[pk] = ModelCreate(pk, properties)
               /\ \A k \in DOMAIN table : table'[k] = table[k]
               /\ Len(call'.storage) <= Len(call'.args.files[1])
               /\ \A i, j \in 1..Len(call'.storage) :
                     call'.storage[i].key = call'.storage[j].key => i = j]_vars

\* C25 witness: create failed on the upload of its file and its row is in
\* the table
CreateNotRolledBackWitness ==
    /\ call.op = "create"
    /\ call.err = StorageError
    /\ Len(call.storage) = 1
    /\ call.args.pk \in DOMAIN table
    /\ table[call.args.pk].name = call.args.params["name"]

\* C8 as claimed: update with a key that matches no row throws the
\* not-found error, writes no row and calls no storage.
UpdateUnknownKeyNotFound ==
    [][(/\ call'.op = "update"
        /\ call'.args.pk \notin DOMAIN table) =>
            /\ call'.err = NotFoundError(call'.args.pk)
            /\ Writes(call'.db) = << >>
            /\ call'.storage = << >>
            /\ table' = table]_vars

\* C8 as amended: update with a key that matches no row writes no row and
\* calls no storage; it throws the not-found error when params holds every
\* required property, and the error of the first missing one otherwise.
UpdateUnknownKeyFails ==
    [][(/\ call'.op = "update"
        /\ call'.args.pk \notin DOMAIN table) =>
            LET missing == FirstFalsy(call'.args.params,
                                      options["update"].requiredProperties)
            IN /\ call'.err =
                    IF missing = << >> THEN NotFoundError(call'.args.pk)
                    ELSE ApiRequestError(<< "No ", missing[1], " provided." >>, 400)
               /\ Writes(call'.db) = << >>
               /\ call'.storage = << >>
               /\ table' = table]_vars

\* C8 witness: update of a key without a row, with files and an upload
\* configuration, failed as not found
UpdateUnknownKeyWitness ==
    /\ call.op = "update"
    /\ call.args.pk # 0
    /\ call.args.files # << >>
    /\ "upload" \in DOMAIN options
    /\ call.err = NotFoundError(call.args.pk)

\* C9: with a dto list configured for the operation, every object that
\* find, create and update return, and every row findAll returns, has no
\* field outside the list.
DtoProjection ==
    /\ (/\ call.op \in {"find", "create", "update"}
        /\ call.err = NoError
        /\ "dto" \in DOMAIN options[call.op]) =>
            DOMAIN call.ret \subseteq Range(options[call.op].dto)
    /\ (/\ call.op = "findAll"
        /\ call.err = NoError
        /\ "dto" \in DOMAIN options["findAll"]) =>
            \A i \in 1..Len(call.ret.rows) :
                DOMAIN call.ret.rows[i] \subseteq Range(options["findAll"].dto)

\* C9 witness: find returned a projection of a row that has more fields
DtoProjectionWitness ==
    /\ call.op = "find"
    /\ call.err = NoError
    /\ "dto" \in DOMAIN options["find"]
    /\ ~(DOMAIN table[call.args.pk] \subseteq Range(options["find"].dto))

\* whether the row of key k differs between two tables
RowDiffers(t1, t2, k) ==
    \/ (k \in DOMAIN t1) # (k \in DOMAIN t2)
    \/ k \in DOMAIN t1 /\ k \in DOMAIN t2 /\ t1[k] # t2[k]

\* C10: a successful create stores the supplied fields under the key it
\* returns; find(k) returns the fields of the stored row, and only a
\* create, update or destroy of k changes that row; a successful destroy
\* removes the row; and find(k) on a key a destroy removed throws the
\* not-found error until a create stores a row under k again.
CreateFindDestroy ==
    /\ [](call.op = "find" /\ call.args.pk \in destroyed =>
            call.err = NotFoundError(call.args.pk))
    /\ [][/\ (call'.op = "create" /\ call'.err = NoError) =>
               /\ call'.args.pk \in DOMAIN table'
               /\ \A p \in Range(options["create"].properties) :
                     table'[call'.args.pk][p] = call'.args.params[p]
          /\ call'.op = "find" =>
               /\ table' = table
               /\ call'.args.pk \in DOMAIN table =>
                     /\ call'.err = NoError
                     /\ \A f \in DOMAIN call'.ret :
                           call'.ret[f] = table[call'.args.pk][f]
                     /\ "dto" \notin DOMAIN options["find"] =>
                           call'.ret = table[call'.args.pk]
               /\ call'.args.pk \notin DOMAIN table => call'.err # NoError
          /\ (call'.op = "destroy" /\ call'.err = NoError) =>
               call'.args.pk \notin DOMAIN table'
          /\ \A k \in Keys :
               RowDiffers(table, table', k) =>
                  /\ call'.op \in {"create", "update", "destroy"}
                  /\ call'.args.pk = k]_vars

\* C10 witness: find on a key whose row a destroy removed failed as not
\* found, while another row is still held
CreateFindDestroyWitness ==
    /\ call.op = "find"
    /\ call.args.pk \in destroyed
    /\ call.err = NotFoundError(call.args.pk)
    /\ table # EmptyObject

\* C11: destroy with a non-falsy key that matches no row throws the
\* not-found ApiRequestError, with or without an upload configuration, and
\* deletes nothing; a destroy that succeeds returns no value.
DestroyUnknownKeyNotFound ==
    [][/\ (/\ call'.op = "destroy"
            /\ call'.args.pk # 0
            /\ call'.args.pk \notin DOMAIN table) =>
               /\ call'.err = NotFoundError(call'.args.pk)
               /\ Writes(call'.db) = << >>
               /\ call'.storage = << >>
               /\ table' = table
       /\ (call'.op = "destroy" /\ call'.err = NoError) => call'.ret = Undefined]_vars

\* the file fields of the configuration for which a row holds a stored URL
StoredFields(opts, row) ==
    IF "upload" \in DOMAIN opts
    THEN SelectSeq(opts["upload"].fields, LAMBDA f : ~Falsy(Get(row, f)))
    ELSE << >>

\* C12: destroy of a row, with an upload configuration, attempts the
\* deletion of the stored object of every file field that holds a URL, in
\* configured field order and before the row is destroyed, whether or not
\* one of the deletions fails.
DestroyDeletesEveryFile ==
    [][(/\ call'.op = "destroy"
        /\ call'.args.pk \in DOMAIN table
        /\ "upload" \in DOMAIN options) =>
            LET row == table[call'.args.pk]
                stored == StoredFields(options, row)
            IN /\ Len(call'.storage) = Len(stored)
               /\ \A i \in 1..Len(stored) :
                     call'.storage[i] = [fn |-> "deleteFile",
                                         key |-> << "parseKey", row[stored[i]] >>]
               /\ call'.err = NoError => call'.args.pk \notin DOMAIN table']_vars

\* C13: findAll with a search string q throws "No search properties are
\* defined." unless a non-empty searchProperties list is configured; with
\* a non-empty list the filter is an OR over exactly the configured
\* fields, each a substring match on q.
SearchNeedsFields ==
    (call.op = "findAll" /\ ~Falsy(call.args.q)) =>
        LET fa == options["findAll"]
            configured == /\ "searchProperties" \in DOMAIN fa
                          /\ fa.searchProperties # << >>
        IN /\ ~configured =>
                call.err = ApiRequestError(<< "No search properties are defined." >>, 400)
           /\ (configured /\ call.err = NoError) =>
                call.db[2].query["where"]["$or"] =
                    [i \in 1..Len(fa.searchProperties) |->
                        [prop |-> fa.searchProperties[i], like |-> call.args.q]]

\* C14: findAll with a where mapping, and no search string, throws a
\* status-400 error naming the allowed fields when some key of where is
\* not in whereProperties or no whereProperties is configured, and then
\* makes no data-layer call; when every key is allowed it does not fail.
WhereNeedsWhitelist ==
    (call.op = "findAll" /\ Falsy(call.args.q) /\ call.args.where # << >>) =>
        LET fa == options["findAll"]
            allowed == IF "whereProperties" \in DOMAIN fa
                       THEN Range(fa.whereProperties) ELSE {}
            bad == DOMAIN call.args.where[1] \ allowed
        IN /\ bad # {} =>
                /\ call.err.status = 400
                /\ allowed \subseteq Range(call.err.message)
                /\ call.db = << >>
           /\ bad = {} => call.err = NoError

\* C28: a findAll with a search string and a where mapping of whitelisted
\* keys sends the data layer a filter that holds the $or clause over the
\* search fields built from q and every key of where with its value, and
\* nothing else.
SearchAndWhereMerged ==
    (/\ call.op = "findAll"
     /\ ~Falsy(call.args.q)
     /\ call.args.where # << >>
     /\ call.err = NoError) =>
        LET fa == options["findAll"]
            where == call.args.where[1]
            filter == call.db[2].query["where"]
            allowed == IF "whereProperties" \in DOMAIN fa
                       THEN Range(fa.whereProperties) ELSE {}
        IN /\ DOMAIN where \subseteq allowed
           /\ DOMAIN filter = {"$or"} \cup DOMAIN where
           /\ filter["$or"] = [i \in 1..Len(fa.searchProperties) |->
                                 [prop |-> fa.searchProperties[i], like |-> call.args.q]]
           /\ \A k \in DOMAIN where : filter[k] = where[k]

\* C28 witness: a search for oa with the filter name = Foam was answered
\* with the one row that matches both
SearchAndWhereWitness ==
    /\ call.op = "findAll"
    /\ call.args.q = "oa"
    /\ call.args.where = << [name |-> "Foam"] >>
    /\ call.err = NoError
    /\ Cardinality(DOMAIN table) = 2
    /\ Len(call.ret.rows) = 1

\* C15: the count a successful findAll returns is the number of rows the
\* data layer holds, from a count call that carries no filter, whatever q
\* and where are, and pages is the ceiling of that count over the limit
\* of the query.
FindAllCountUnfiltered ==
    (call.op = "findAll" /\ call.err = NoError) =>
        LET L == call.db[2].query["limit"] IN
        /\ call.db[1] = [fn |-> "count"]
        /\ call.ret.count = Cardinality(DOMAIN table)
        /\ call.ret.pages * L >= call.ret.count
        /\ (call.ret.pages - 1) * L < call.ret.count

\* C15 witness: a filtered first page that could hold every row returned
\* fewer rows than the count it reports
FindAllCountWitness ==
    /\ call.op = "findAll"
    /\ call.err = NoError
    /\ call.args.where = << [name |-> "Foam"] >>
    /\ call.db[2].query["offset"] = 0
    /\ call.db[2].query["limit"] >= call.ret.count
    /\ Len(call.ret.rows) = 1
    /\ call.ret.count = 2
    /\ call.ret.pages = 1

(***************************************************************************)
(* Properties of the association path                                      *)
(***************************************************************************)
\* the aliases in scope at a model, and the target an alias leads to
AliasesOf(model) == { associations(model)[i].as : i \in 1..Len(associations(model)) }

TargetOf(model, alias) ==
    (CHOOSE a \in { associations(model)[i] : i \in 1..Len(associations(model)) } :
        a.as = alias).target

\* the string a builder was constructed with
PathString == inputParams["include"]

\* the alias a comma-separated segment names, and its grouped children
SegAlias(seg) ==
    LET parts == Split(seg, ".") IN IF Len(parts) > 1 THEN parts[1] ELSE seg

SegChildren(seg) ==
    LET parts == Split(seg, ".") IN IF Len(parts) > 1 THEN Split(parts[2], ":") ELSE << >>

\* the first alias of a segment that is not in its scope, as a sequence of
\* length 0 or 1: the segment's alias in the root's scope, else a child in
\* the scope of the alias's target
FirstMissing(root, seg) ==
    IF SegAlias(seg) \notin AliasesOf(root) THEN << SegAlias(seg) >>
    ELSE LET scope == AliasesOf(TargetOf(root, SegAlias(seg)))
             bad == SelectSeq(SegChildren(seg), LAMBDA c : c \notin scope)
         IN IF bad = << >> THEN << >> ELSE << Head(bad) >>

\* the indexes of the segments of the path that name a missing alias
BadSegments ==
    LET segs == Split(PathString, ",") IN
    { i \in 1..Len(segs) : FirstMissing(pbModel, segs[i]) # << >> }

\* C1: parsing the string that getIncludeString produces for a tree that
\* filterAssociations resolved yields that tree again (and the encoder
\* accepts every such tree): parse(encode(t)) = t.
PathRoundTrip ==
    /\ pbPc = "encoded" => includeString.err = << >>
    /\ (round = 2 /\ pbPc \in {"parsed", "failed"}) =>
          /\ pbPc = "parsed"
          /\ outputParams["include"] = sentTree

\* C1 witness: a tree with two top-level nodes, one with two children, has
\* been encoded, re-sent and parsed again
PathRoundTripWitness ==
    /\ round = 2
    /\ pbPc = "parsed"
    /\ Len(sentTree) = 2
    /\ \E i \in 1..Len(sentTree) :
          "include" \in DOMAIN sentTree[i] /\ Len(sentTree[i].include) = 2

\* C2: when some alias of the path is not in its scope, filterAssociations
\* throws "Invalid association: <alias>" with status 400, naming the first
\* such alias in reading order, and outputParams stays as it was.
InvalidAssociationThrown ==
    (pbPc \in {"parsed", "failed"} /\ BadSegments # {}) =>
        LET segs == Split(PathString, ",")
            first == CHOOSE i \in BadSegments : \A k \in BadSegments : i <= k
        IN /\ pbPc = "failed"
           /\ pbError = [message |-> << "Invalid association: ",
                                        FirstMissing(pbModel, segs[first])[1] >>,
                         status |-> 400]
           /\ outputParams = EmptyObject

\* C2 witness: the parse failed on a grouped child that is an alias of the
\* root but not of the matched association's target
InvalidAssociationWitness ==
    /\ pbPc = "failed"
    /\ pbError.message[2] \in AliasesOf(pbModel)
    /\ Len(Split(PathString, ",")) > 1

\* the number of occurrences of character c in string s
CountChar(s, c) == Cardinality({ i \in 1..Len(s) : s[i] = c })

\* the string a tree is written as: aliases in order, children after '.'
\* and joined by ':', top-level nodes joined by ','
RECURSIVE Written(_, _, _)
Written(nodes, sep, i) ==
    IF i > Len(nodes) THEN << >>
    ELSE nodes[i].as
         \o (IF "include" \in DOMAIN nodes[i]
             THEN << "." >> \o Written(nodes[i].include, ":", 1) ELSE << >>)
         \o (IF i < Len(nodes) THEN << sep >> ELSE << >>)
         \o Written(nodes, sep, i + 1)

\* a path of the grammar: no segment has more than one '.'
GrammarPath(path) ==
    LET segs == Split(path, ",") IN
    \A i \in 1..Len(segs) : CountChar(segs[i], ".") <= 1

\* the documented example, with Images spelled as the alias Image
SpecExamplePath ==
    Texture \o <<".">> \o TextureType \o <<":">> \o Image \o <<",">> \o MaterialType

\* C3: a successfully parsed path of the grammar yields one top-level node
\* per comma-separated segment and one child per colon-separated name, in
\* the order written and without deduplication, each resolved in its
\* scope; the documented example yields Texture with two children and a
\* bare MaterialType.
PathTreeAsWritten ==
    /\ (pbPc = "parsed" /\ GrammarPath(PathString)) =>
          LET tree == outputParams["include"]
              segs == Split(PathString, ",")
          IN /\ Len(tree) = CountChar(PathString, ",") + 1
             /\ Written(tree, ",", 1) = PathString
             /\ \A i \in 1..Len(tree) :
                   /\ tree[i].model = TargetOf(pbModel, tree[i].as)
                   /\ ("include" \in DOMAIN tree[i]) <=> (CountChar(segs[i], ".") = 1)
                   /\ "include" \in DOMAIN tree[i] =>
                         /\ Len(tree[i].include) = CountChar(segs[i], ":") + 1
                         /\ \A j \in 1..Len(tree[i].include) :
                               /\ DOMAIN tree[i].include[j] = {"model", "as"}
                               /\ tree[i].include[j].model =
                                     TargetOf(tree[i].model, tree[i].include[j].as)
    /\ (pbPc \in {"parsed", "failed"} /\ pbModel = "Material"
           /\ PathString = SpecExamplePath) =>
          /\ pbPc = "parsed"
          /\ outputParams["include"] =
                << [model |-> "Texture", as |-> Texture,
                    include |-> << [model |-> "TextureType", as |-> TextureType],
                                   [model |-> "Image", as |-> Image] >>],
                   [model |-> "MaterialType", as |-> MaterialType] >>

\* C3 witness: the documented example has been parsed, and so has a path
\* that names the same alias twice
PathTreeWitness ==
    /\ pbPc = "parsed"
    /\ round = 1
    /\ \/ PathString = SpecExamplePath
       \/ /\ Len(outputParams["include"]) = 2
          /\ outputParams["include"][1] = outputParams["include"][2]

\* the number of levels of a tree of include nodes
TreeDepth(tree) ==
    IF tree = << >> THEN 0
    ELSE IF \E i \in 1..Len(tree) : "include" \in DOMAIN tree[i]
                                      /\ tree[i].include # << >>
    THEN IF \E i \in 1..Len(tree) : "include" \in DOMAIN tree[i] /\
              \E j \in 1..Len(tree[i].include) : "include" \in DOMAIN tree[i].include[j]
         THEN 3 ELSE 2
    ELSE 1

\* C27: the tree filterAssociations returns for any string holds nothing
\* but the aliases the string lists: node i is the alias of segment i, it
\* has no include when the segment has no '.', whatever associations its
\* target has, its children are names written after the '.', and a child
\* has no include, so no tree is deeper than two levels.
TreeOnlyListedAliases ==
    pbPc = "parsed" =>
        LET tree == outputParams["include"]
            segs == Split(PathString, ",")
        IN /\ Len(tree) = Len(segs)
           /\ TreeDepth(tree) <= 2
           /\ \A i \in 1..Len(tree) :
                 /\ tree[i].as = SegAlias(segs[i])
                 /\ CountChar(segs[i], ".") = 0 => DOMAIN tree[i] = {"model", "as"}
                 /\ DOMAIN tree[i] \in {{"model", "as"}, {"model", "as", "include"}}
                 /\ "include" \in DOMAIN tree[i] =>
                       \A j \in 1..Len(tree[i].include) :
                          /\ DOMAIN tree[i].include[j] = {"model", "as"}
                          /\ tree[i].include[j].as \in Range(SegChildren(segs[i]))

\* C27 witness: the bare alias of Texture was parsed for Material into one
\* node without children, although Texture has associations of its own
TreeOnlyListedWitness ==
    /\ pbPc = "parsed"
    /\ round = 1
    /\ pbModel = "Material"
    /\ PathString = Texture
    /\ associations("Texture") # << >>
    /\ outputParams["include"] = << [model |-> "Texture", as |-> Texture] >>

RequiredChecked ==
    pbStep.fn = "constructor" =>
        LET missing == SelectSeq(pbStep.requiredProperties,
                                 LAMBDA k : \/ k \notin DOMAIN inputParams
                                            \/ inputParams[k] \in {Undefined, Null, "", Zero})
        IN IF missing = << >>
           THEN /\ pbPc = "built"
                /\ pbError = NoError
                /\ outputParams = EmptyObject
           ELSE /\ pbPc = "failed"
                /\ pbError = ApiRequestError(<< "No ", Head(missing), " provided." >>, 400)

\* C16 witness: the constructor, given a name and the number 0 as role,
\* threw naming role, the second required key
RequiredCheckedWitness ==
    /\ pbStep.fn = "constructor"
    /\ pbStep.requiredProperties = << "name", "role" >>
    /\ DOMAIN inputParams = {"name", "role"}
    /\ inputParams["name"] = "Foam"
    /\ inputParams["role"] = Zero
    /\ pbError = ApiRequestError(<< "No ", "role", " provided." >>, 400)

\* C17: filterProperties copies exactly the listed fields that the input
\* holds (with a value other than undefined), with their input values, to
\* the top level of outputParams, or under the prefix when one is given;
\* a listed field the input lacks is not in the output, nor is an
\* unlisted field copied, and what the output held besides is kept.
SelectedFields ==
    [][(pbStep'.fn = "filterProperties" /\ pbPc' # pbPc) =>
          LET present == { k \in Range(pbStep'.properties) :
                             k \in DOMAIN inputParams /\ inputParams[k] # Undefined }
              prefix == pbStep'.prefix
          IN IF prefix = Null
             THEN /\ DOMAIN outputParams' = DOMAIN outputParams \cup present
                  /\ \A k \in present : outputParams'[k] = inputParams[k]
                  /\ \A k \in DOMAIN outputParams \ present :
                        outputParams'[k] = outputParams[k]
             ELSE /\ DOMAIN outputParams' = DOMAIN outputParams \cup {prefix}
                  /\ DOMAIN outputParams'[prefix] = present
                  /\ \A k \in present : outputParams'[prefix][k] = inputParams[k]
                  /\ \A k \in DOMAIN outputParams \ {prefix} :
                        outputParams'[k] = outputParams[k]]_vars

\* C17 witness: filterProperties(['name', 'role'], 'data') on an input
\* that holds name and the unlisted where, and no role, left name alone
\* nested under data
SelectedFieldsWitness ==
    /\ pbStep.fn = "filterProperties"
    /\ pbStep.properties = << "name", "role" >>
    /\ pbStep.prefix = "data"
    /\ DOMAIN inputParams = {"name", "where"}
    /\ DOMAIN outputParams = {"data"}
    /\ DOMAIN outputParams["data"] = {"name"}

\* the key and the value of an item key:value
PairKey(item) == SubSeq(item, 1, IndexOf(item, ":", 1) - 1)

PairValue(item) == SubSeq(item, IndexOf(item, ":", 1) + 1, Len(item))

\* a string of the form k1:v1,k2:v2,...: every item has one colon
KeyValueList(data) ==
    LET items == Split(data, ",") IN
    \A i \in 1..Len(items) : CountChar(items[i], ":") = 1

\* C18: filterStringObjectArray on a string k1:v1,k2:v2,... writes the
\* mapping of each key to its value (the last one given for the key) to
\* outputParams[prefix] and keeps the other keys of outputParams; when
\* skipIf() is true it leaves outputParams as it was and does not fail,
\* the input holding the source field or not.
KeyValueDecoded ==
    [][(pbStep'.fn = "filterStringObjectArray" /\ pbPc' # pbPc) =>
          IF pbStep'.skipIf
          THEN /\ outputParams' = outputParams
               /\ pbError' = NoError
               /\ pbPc' # "failed"
          ELSE (/\ pbStep'.keyName \in DOMAIN inputParams
                /\ KeyValueList(inputParams[pbStep'.keyName])) =>
                  LET items == Split(inputParams[pbStep'.keyName], ",")
                      obj == outputParams'[pbStep'.prefix]
                  IN /\ pbPc' # "failed"
                     /\ DOMAIN outputParams' = DOMAIN outputParams \cup {pbStep'.prefix}
                     /\ DOMAIN obj = { PairKey(items[i]) : i \in 1..Len(items) }
                     /\ \A i \in 1..Len(items) :
                           (\A j \in (i + 1)..Len(items) :
                               PairKey(items[j]) # PairKey(items[i])) =>
                                  obj[PairKey(items[i])] = PairValue(items[i])
                     /\ \A k \in DOMAIN outputParams \ {pbStep'.prefix} :
                           outputParams'[k] = outputParams[k]]_vars

\* C18 witness: "a:b,b:a" has been decoded into a mapping of two keys
KeyValueDecodedWitness ==
    /\ pbStep.fn = "filterStringObjectArray"
    /\ ~pbStep.skipIf
    /\ pbPc # "failed"
    /\ inputParams["where"] = << "a", ":", "b", ",", "b", ":", "a" >>
    /\ DOMAIN outputParams["where"] = { << "a" >>, << "b" >> }

\* whether string a occurs in string s
IsSubstring(a, s) ==
    \E i \in 1..(Len(s) - Len(a) + 1) : SubSeq(s, i, i + Len(a) - 1) = a

\* C19: filterAssociation with an alias of the model's own associations
\* writes the alias to outputParams.include; with any other alias it
\* throws a status-400 error naming the alias and every valid alias, and
\* leaves outputParams as it was; when skipIf() is true it changes nothing
\* and does not fail.
OneAssociationResolved ==
    [][(pbStep'.fn = "filterAssociation" /\ pbPc' # pbPc) =>
          LET alias == pbStep'.associationName IN
          IF pbStep'.skipIf
          THEN /\ outputParams' = outputParams
               /\ pbError' = NoError
               /\ pbPc' # "failed"
          ELSE IF alias \in AliasesOf(pbModel)
          THEN /\ pbPc' # "failed"
               /\ DOMAIN outputParams' = DOMAIN outputParams \cup {"include"}
               /\ outputParams'["include"] = alias
               /\ \A k \in DOMAIN outputParams \ {"include"} :
                     outputParams'[k] = outputParams[k]
          ELSE /\ pbPc' = "failed"
               /\ pbError'.status = 400
               /\ pbError'.message[2] = alias
               /\ \A a \in AliasesOf(pbModel) : IsSubstring(a, pbError'.message[4])
               /\ outputParams' = outputParams]_vars

\* C19 witness: filterAssociation with TextureType, an alias of another
\* model's associations, failed after an earlier method had written output
OneAssociationWitness ==
    /\ pbStep.fn = "filterAssociation"
    /\ pbStep.associationName = TextureType
    /\ pbPc = "failed"
    /\ DOMAIN outputParams # {}

\* what a method call writes when outputParams is empty
StepAlone(step) ==
    CASE step.fn = "filterProperties" ->
            filterPropertiesWithPrefix(inputParams, EmptyObject, step.properties, step.prefix)
      [] step.fn = "filterStringObjectArray" ->
            IF step.skipIf THEN EmptyObject
            ELSE filterStringObjectArray(inputParams, EmptyObject,
                                         step.keyName, step.prefix).output
      [] step.fn = "filterAssociation" ->
            IF step.skipIf THEN EmptyObject
            ELSE filterAssociation(pbModel, EmptyObject, step.associationName).output

\* C21: each method of a chain that returns writes its keys onto the one
\* outputParams of the builder: a key it writes holds the value of this,
\* the later, call, whatever an earlier call wrote there, the other keys
\* are kept, and build returns that outputParams.
ChainAccumulates ==
    [][/\ (/\ pbStep'.fn \in {"filterProperties", "filterStringObjectArray",
                              "filterAssociation"}
            /\ pbPc' \notin {pbPc, "failed"}) =>
               LET alone == StepAlone(pbStep') IN
               /\ DOMAIN outputParams' = DOMAIN outputParams \cup DOMAIN alone
               /\ \A k \in DOMAIN alone : outputParams'[k] = alone[k]
               /\ \A k \in DOMAIN outputParams \ DOMAIN alone :
                     outputParams'[k] = outputParams[k]
       /\ (pbStep'.fn = "build" /\ pbPc' # pbPc) =>
               /\ pbStep'.ret = outputParams
               /\ outputParams' = outputParams]_vars

\* C21 witness: build returned the data written by the second of two
\* filterProperties calls with the prefix data, and the name the first
\* wrote at the top level
ChainAccumulatesWitness ==
    /\ pbStep.fn = "build"
    /\ pbStep.prev.fn = "filterProperties"
    /\ pbStep.prev.prefix = "data"
    /\ pbStep.prev.properties = << "name" >>
    /\ pbStep.prev.prev.fn = "filterProperties"
    /\ pbStep.prev.prev.prefix = "data"
    /\ pbStep.prev.prev.properties = << "role", "uuid" >>
    /\ DOMAIN inputParams = {"name", "role"}
    /\ inputParams["name"] = "Foam"
    /\ inputParams["role"] = "admin"
    /\ DOMAIN pbStep.ret = {"data"}
    /\ DOMAIN pbStep.ret["data"] = {"name"}

(***************************************************************************)
(* CrudAPI: the client                                                     *)
(***************************************************************************)
\* the JavaScript values true and false
True == "<true>"
False == "<false>"

Truthy(v) == v \notin {Undefined, Null, Zero, "", False}

\* useAuth of buildOptions: middleware && middleware.length > 0
useAuth(o) ==
    IF "middleware" \notin DOMAIN o THEN Undefined
    ELSE IF Len(o.middleware) > 0 THEN True ELSE False

\* CrudAPI.buildOptions(options); a property the controller options lack is
\* left out where the code copies undefined
buildOptions(opts) ==
    LET copied(o, S) == [k \in S \cap DOMAIN o |-> o[k]]
        entry(k) ==
            CASE k = "authorization" -> opts[k]
              [] k \in {"find", "findAll", "delete"} -> [auth |-> useAuth(opts[k])]
              [] k = "create" ->
                    ("auth" :> useAuth(opts[k])) @@ copied(opts[k], {"properties"})
              [] k = "update" ->
                    ("auth" :> useAuth(opts[k]))
                    @@ copied(opts[k], {"properties", "requiredProperties"})
    IN [k \in DOMAIN opts \cap {"authorization", "find", "findAll", "create",
                                "update", "delete"} |-> entry(k)]

\* new CrudAPI(serverURL, endpoint, foreignKeyName, options): the arguments
\* and the closure variables _serverURL, _endpoint, authorizationOptions
NewCrudAPI(serverURL, endpoint, fkName, opts) ==
    [serverURL |-> serverURL, endpoint |-> endpoint, foreignKeyName |-> fkName,
     options |-> opts,
     _serverURL |-> serverURL, _endpoint |-> endpoint,
     authorizationOptions |->
        IF "authorization" \in DOMAIN opts THEN opts["authorization"] ELSE EmptyObject]

\* the operations the constructor defines on the instance
ApiMembers(api) ==
    { op \in {"find", "findAll", "create", "update"} : op \in DOMAIN api.options }
    \cup (IF "delete" \in DOMAIN api.options THEN {"destroy"} ELSE {})

\* setAuthorizationOptions writing the slot of every instance constructed
\* from the same options
setAuthorizationOptionsShared(all, i, newOptions) ==
    [j \in DOMAIN all |->
        IF all[j].options = all[i].options
        THEN [all[j] EXCEPT !.authorizationOptions = newOptions] ELSE all[j]]

\* instance i's setAuthorizationOptions(newOptions): the instances after it
setAuthorizationOptions(all, i, newOptions) ==
    [all EXCEPT ![i].authorizationOptions = newOptions]

\* buildRequestOptions: the headers of the request
buildRequestOptions(api, storage, headers, auth) ==
    LET ao == api.authorizationOptions IN
    IF ~Truthy(auth) THEN headers
    ELSE IF Get(ao, "storage") = "localStorage"
    THEN LET token == Get(storage, Get(ao, "key")) IN
         IF Truthy(token)
         THEN ("Authorization" :> << "Bearer ", token >>) @@ headers
         ELSE headers
    ELSE IF Get(ao, "storage") = "memory"
    THEN ("Authorization" :> << "Bearer ", Get(ao, "token") >>) @@ headers
    ELSE headers

\* getUrl()
getUrl(api) == << api._serverURL, api._endpoint >>

\* what a call leaves: the error it threw (<< >>: none), the request it
\* sent to fetch (<< >>: none) and the caller's params object after it
ApiOutcome(err, request, params) == [err |-> err, request |-> request, params |-> params]

ApiThrows(message, params) == ApiOutcome(message, << >>, params)

Fetch(url, method, headers, body, params) ==
    ApiOutcome(<< >>, << [url |-> url, method |-> method, headers |-> headers,
                        body |-> body] >>, params)

ContentTypeJson == "Content-Type" :> << "application/json" >>

\* the first of the keys whose value in params is falsy, as a sequence of
\* length 0 or 1
MissingParam(params, keys) ==
    LET missing == SelectSeq(keys, LAMBDA k : Falsy(Get(params, k)))
    IN IF missing = << >> THEN << >> ELSE << Head(missing) >>

\* api.find(params)
ApiFind(api, storage, params) ==
    LET key == Get(params, api.foreignKeyName) IN
    IF Falsy(key) THEN ApiThrows(<< "No ", api.foreignKeyName, " provided." >>, params)
    ELSE Fetch(getUrl(api) \o << "/", key >>, "GET",
               buildRequestOptions(api, storage, EmptyObject,
                                   Get(api.options["find"], "auth")),
               << >>, params)

\* api.findAll(params), params holding no where, include, page, q or
\* customParams
ApiFindAll(api, storage, params) ==
    LET limit == Get(params, "limit") IN
    IF Falsy(limit) THEN ApiThrows(<< "No limit parameter provided." >>, params)
    ELSE Fetch(getUrl(api) \o << "?limit=", limit >>, "GET",
               buildRequestOptions(api, storage, EmptyObject,
                                   Get(api.options["findAll"], "auth")),
               << >>, params)

\* the responseInclude step of create and update: a JavaScript array is
\* [array |-> a], a string [string |-> s]; the error thrown, and params
\* with responseInclude assigned the include string
ResponseInclude(params) ==
    LET given == "responseInclude" \in DOMAIN params
        value == params["responseInclude"]
    IN IF ~given THEN ApiOutcome(<< >>, << >>, params)
       ELSE IF "string" \in DOMAIN value
       THEN IF value["string"] = << >> THEN ApiOutcome(<< >>, << >>, params)
            ELSE ApiThrows(<< "Include parameter must be an array." >>, params)
       ELSE LET val == getIncludeString(value["array"]) IN
            IF val.err # << >> THEN ApiThrows(val.err, params)
            ELSE ApiOutcome(<< >>, << >>,
                            [params EXCEPT !["responseInclude"] = [string |-> val.str]])

\* api.create(params), params a plain object
ApiCreate(api, storage, params) ==
    LET missing == MissingParam(params, api.options["create"].properties)
        included == ResponseInclude(params)
    IN IF missing # << >> THEN ApiThrows(<< "No ", missing[1], " provided." >>, params)
       ELSE IF included.err # << >> THEN included
       ELSE Fetch(getUrl(api), "POST",
                  ContentTypeJson
                  @@ buildRequestOptions(api, storage, EmptyObject,
                                         Get(api.options["create"], "auth")),
                  << included.params >>, included.params)

\* api.update(params), params a plain object
ApiUpdate(api, storage, params) ==
    LET o == api.options["update"]
        missing == IF "requiredProperties" \in DOMAIN o
                   THEN MissingParam(params, o.requiredProperties) ELSE << >>
        included == ResponseInclude(params)
    IN IF missing # << >> THEN ApiThrows(<< "No ", missing[1], " provided." >>, params)
       ELSE IF Falsy(Get(params, api.foreignKeyName))
       THEN ApiThrows(<< "No ", api.foreignKeyName, " provided." >>, params)
       ELSE IF included.err # << >> THEN included
       ELSE Fetch(getUrl(api), "PUT",
                  ContentTypeJson
                  @@ buildRequestOptions(api, storage, EmptyObject, Get(o, "auth")),
                  << included.params >>, included.params)

\* api.destroy(params)
ApiDestroy(api, storage, params) ==
    IF Falsy(Get(params, api.foreignKeyName))
    THEN ApiThrows(<< "No ", api.foreignKeyName, " provided." >>, params)
    ELSE Fetch(getUrl(api), "DELETE",
               buildRequestOptions(api, storage, ContentTypeJson,
                                   Get(api.options["delete"], "auth")),
               << params >>, params)

\* the call of operation op on an instance
ApiOperation(op, api, storage, params) ==
    CASE op = "find" -> ApiFind(api, storage, params)
      [] op = "findAll" -> ApiFindAll(api, storage, params)
      [] op = "create" -> ApiCreate(api, storage, params)
      [] op = "update" -> ApiUpdate(api, storage, params)
      [] op = "destroy" -> ApiDestroy(api, storage, params)

\* getConstructorOptions(): the arguments the constructor was given
getConstructorOptions(api) ==
    [serverURL |-> api.serverURL, endpoint |-> api.endpoint,
     foreignKeyName |-> api.foreignKeyName, options |-> api.options]

\* JSON.parse(JSON.stringify(o)) of an operation's options: a key whose
\* value is undefined is not written
JsonOperationOptions(o) ==
    [k \in { k \in DOMAIN o : k = "auth" => o[k] # Undefined } |-> o[k]]

\* CrudAPI.toJson(api), as the object JSON.parse reads from the text
toJson(api) ==
    LET c == getConstructorOptions(api) IN
    [c EXCEPT !.options =
        [k \in DOMAIN c.options |->
            IF k = "authorization" THEN c.options[k]
            ELSE JsonOperationOptions(c.options[k])]]

\* CrudAPI.fromJson(json)
fromJson(parsed) ==
    NewCrudAPI(parsed.serverURL, parsed.endpoint, parsed.foreignKeyName, parsed.options)

(***************************************************************************)
(* The CrudAPI state machine: two instances constructed from one options   *)
(* object, their setters, their operations and the JSON round trip         *)
(***************************************************************************)
ServerURLs == {"http://a", "http://b"}

Endpoints == {"/materials", "/textures"}

AuthorizationArgs ==
    { [storage |-> "memory", token |-> "t1"],
      [storage |-> "memory", token |-> "t2"],
      [storage |-> "localStorage", key |-> "auth"] }

\* the controller options the client options are built from
ProtectedController ==
    [authorization |-> [storage |-> "memory", token |-> "t1"],
     find |-> [middleware |-> << "auth" >>],
     findAll |-> [middleware |-> << "auth" >>],
     create |-> [middleware |-> << "auth" >>, properties |-> << "name" >>],
     update |-> [middleware |-> << "auth" >>, properties |-> << "name" >>,
                 requiredProperties |-> << "name" >>],
     delete |-> [middleware |-> << "auth" >>]]

OpenController ==
    [find |-> EmptyObject,
     create |-> [middleware |-> << "auth" >>, properties |-> << "name" >>],
     update |-> [middleware |-> << >>, properties |-> << "name" >>]]

ApiOptions == { buildOptions(o) : o \in {ProtectedController, OpenController} }

\* the params objects a caller passes
ParamsObjects ==
    { Restrict([uuid |-> "k1", name |-> "Foam", limit |-> "2",
                responseInclude |->
                    [array |-> << [model |-> Texture, include |-> << TextureType >>] >>]],
               S \cup {"limit"}) :
        S \in SUBSET {"uuid", "name", "responseInclude"} }

SetterCalled(op, i, value) ==
    [op |-> op, api |-> i, params |-> value, err |-> << >>, request |-> << >>]

\* apis[i].setServerURL(url)
SetServerURL(i, url) ==
    /\ apiCall.op = "none"
    /\ apis' = [apis EXCEPT ![i]._serverURL = url]
    /\ apiCall' = SetterCalled("setServerURL", i, url)
    /\ UNCHANGED << localStorage, callerParams, whereObject, whereString >>
    /\ UNCHANGED << pathVars, crudVars >>

\* apis[i].setEndpoint(endpoint)
SetEndpoint(i, endpoint) ==
    /\ apiCall.op = "none"
    /\ apis' = [apis EXCEPT ![i]._endpoint = endpoint]
    /\ apiCall' = SetterCalled("setEndpoint", i, endpoint)
    /\ UNCHANGED << localStorage, callerParams, whereObject, whereString >>
    /\ UNCHANGED << pathVars, crudVars >>

\* apis[i].setAuthorizationOptions(newOptions)
SetAuthorizationOptions(i, newOptions) ==
    /\ apiCall.op = "none"
    /\ apis' = setAuthorizationOptions(apis, i, newOptions)
    /\ apiCall' = SetterCalled("setAuthorizationOptions", i, newOptions)
    /\ UNCHANGED << localStorage, callerParams, whereObject, whereString >>
    /\ UNCHANGED << pathVars, crudVars >>

\* apis[j] = CrudAPI.fromJson(CrudAPI.toJson(apis[i]))
FromJsonToJson(i, j) ==
    /\ apiCall.op = "none"
    /\ i # j
    /\ apis' = [apis EXCEPT ![j] = fromJson(toJson(apis[i]))]
    /\ apiCall' = SetterCalled("fromJson", j, [of |-> i])
    /\ UNCHANGED << localStorage, callerParams, whereObject, whereString >>
    /\ UNCHANGED << pathVars, crudVars >>

\* apis[i][op](callerParams)
ClientCall(i, op) ==
    /\ apiCall.op = "none"
    /\ op \in ApiMembers(apis[i])
    /\ LET o == ApiOperation(op, apis[i], localStorage, callerParams) IN
         /\ apiCall' = [op |-> op, api |-> i, params |-> callerParams,
                        err |-> o.err, request |-> o.request]
         /\ callerParams' = o.params
    /\ UNCHANGED << apis, localStorage, whereObject, whereString >>
    /\ UNCHANGED << pathVars, crudVars >>

\* the promise of the call settles
ClientReturn ==
    /\ apiCall.op # "none"
    /\ apiCall' = NoApiCall
    /\ UNCHANGED << apis, localStorage, callerParams, whereObject, whereString >>
    /\ UNCHANGED << pathVars, crudVars >>

InitApi ==
    /\ \E o \in ApiOptions :
          apis = << NewCrudAPI("http://a", "/materials", foreignKeyName, o),
                    NewCrudAPI("http://a", "/materials", foreignKeyName, o) >>
    /\ localStorage \in { EmptyObject, [auth |-> "t3"] }
    /\ callerParams \in ParamsObjects
    /\ apiCall = NoApiCall
    /\ whereObject = << >>
    /\ whereString = << >>
    /\ PathIdle
    /\ CrudIdle

NextApi ==
    \/ \E i \in 1..2, url \in ServerURLs : SetServerURL(i, url)
    \/ \E i \in 1..2, endpoint \in Endpoints : SetEndpoint(i, endpoint)
    \/ \E i \in 1..2, newOptions \in AuthorizationArgs : SetAuthorizationOptions(i, newOptions)
    \/ \E i \in 1..2, j \in 1..2 : FromJsonToJson(i, j)
    \/ \E i \in 1..2 : ClientCall(i, "find")
    \/ \E i \in 1..2 : ClientCall(i, "findAll")
    \/ \E i \in 1..2 : ClientCall(i, "create")
    \/ \E i \in 1..2 : ClientCall(i, "update")
    \/ \E i \in 1..2 : ClientCall(i, "destroy")
    \/ ClientReturn

SpecApi == InitApi /\ [][NextApi]_vars

(***************************************************************************)
(* Properties of the CrudAPI client                                        *)
(***************************************************************************)
ClientOps == {"find", "findAll", "create", "update", "destroy"}

\* the auth flag of the options an operation of an instance reads
AuthFlag(api, op) == Get(api.options[IF op = "destroy" THEN "delete" ELSE op], "auth")

\* C22: the instance fromJson(toJson(x)) yields has the operations x has,
\* and for every operation and params object it throws what x throws or
\* sends the request x sends (URL, method, headers with Authorization,
\* body), whatever setters were called on x before.
SerializedRoundTrip ==
    [][apiCall'.op = "fromJson" =>
          LET x == apis[apiCall'.params.of]
              y == apis'[apiCall'.api]
          IN /\ ApiMembers(y) = ApiMembers(x)
             /\ \A op \in ApiMembers(x), p \in ParamsObjects :
                   LET sent == ApiOperation(op, x, localStorage, p)
                       copy == ApiOperation(op, y, localStorage, p)
                   IN /\ copy.err = sent.err
                      /\ copy.request = sent.request]_vars

\* C26: the authorizationOptions of an instance change only in its own
\* setAuthorizationOptions, which leaves every other instance, one built
\* from the same options object included, as it was and sending what it
\* sent before; a call with auth carries the bearer token of the slot as it
\* is when the call is made (for the storage localStorage, the token stored
\* under the slot's key), and a call without auth carries none.
CredentialSlotOwned ==
    [][/\ \A j \in DOMAIN apis :
             (/\ apis'[j].authorizationOptions # apis[j].authorizationOptions
              /\ ~(apiCall'.op = "fromJson" /\ apiCall'.api = j)) =>
                  /\ apiCall'.op = "setAuthorizationOptions"
                  /\ apiCall'.api = j
       /\ apiCall'.op = "setAuthorizationOptions" =>
             /\ apis'[apiCall'.api].authorizationOptions = apiCall'.params
             /\ \A j \in DOMAIN apis \ {apiCall'.api} :
                   /\ apis'[j] = apis[j]
                   /\ \A op \in ApiMembers(apis[j]), p \in ParamsObjects :
                         ApiOperation(op, apis'[j], localStorage', p).request
                            = ApiOperation(op, apis[j], localStorage, p).request
       /\ (apiCall'.op \in ClientOps /\ apiCall'.request # << >>) =>
             LET api == apis[apiCall'.api]
                 ao == api.authorizationOptions
                 headers == apiCall'.request[1].headers
                 token == IF Get(ao, "storage") = "memory" THEN Get(ao, "token")
                          ELSE IF Get(ao, "storage") = "localStorage"
                          THEN Get(localStorage, Get(ao, "key"))
                          ELSE Undefined
             IN IF Truthy(AuthFlag(api, apiCall'.op)) /\ Truthy(token)
                THEN /\ "Authorization" \in DOMAIN headers
                     /\ headers["Authorization"] = << "Bearer ", token >>
                ELSE "Authorization" \notin DOMAIN headers]_vars

\* C26 witness: after setAuthorizationOptions on the first instance, a call
\* of it carried the new token while the second instance, built from the
\* same options object, still holds the token of the options
CredentialSlotWitness ==
    /\ apiCall.op \in ClientOps
    /\ apiCall.api = 1
    /\ apiCall.request # << >>
    /\ "Authorization" \in DOMAIN apiCall.request[1].headers
    /\ apiCall.request[1].headers["Authorization"] = << "Bearer ", "t2" >>
    /\ apis[1].options = apis[2].options
    /\ "authorization" \in DOMAIN apis[2].options
    /\ apis[2].authorizationOptions = apis[2].options["authorization"]
    /\ apis[2].authorizationOptions = [storage |-> "memory", token |-> "t1"]

\* C30: create and update leave the params object they are given as it
\* was, and the body they send is that object.
ClientParamsUnchanged ==
    [][apiCall'.op \in {"create", "update"} =>
          /\ callerParams' = callerParams
          /\ apiCall'.request # << >> =>
                apiCall'.request[1].body = << callerParams >>]_vars

(***************************************************************************)
(* The where filter: encoded by the client, decoded by the builder         *)
(***************************************************************************)
\* the loop of getWhereString over Object.keys(whereObject)
RECURSIVE WherePairs(_, _)
WherePairs(pairs, i) ==
    IF i > Len(pairs) THEN << >>
    ELSE pairs[i].key \o << ":" >> \o pairs[i].value
         \o (IF i < Len(pairs) THEN << "," >> ELSE << >>)
         \o WherePairs(pairs, i + 1)

\* CrudAPIUtils.getWhereString(whereObject, whereString) for an object,
\* given as its pairs in key order
getWhereString(pairs, prefix) == prefix \o WherePairs(pairs, 1)

\* non-empty keys and values without ',' and ':'
WhereWords == StringsOver({"a", "b"}, 2) \ {<< >>}

\* the where objects a client encodes: up to MaxPairs pairs, no key twice
WhereObjects ==
    UNION { { pairs \in [1..n -> [key : WhereWords, value : WhereWords]] :
                \A i, j \in 1..n : pairs[i].key = pairs[j].key => i = j } :
            n \in 0..MaxPairs }

\* the client encodes its where object
GetWhereString ==
    /\ pbPc = "idle"
    /\ whereString' = getWhereString(whereObject, << >>)
    /\ pbPc' = "encoded"
    /\ UNCHANGED << pbModel, inputParams, outputParams, pbError, pbStep, round,
                    sentTree, includeString >>
    /\ UNCHANGED << apis, localStorage, callerParams, apiCall, whereObject >>
    /\ UNCHANGED crudVars

\* the string arrives as the where parameter of a request
ReceiveWhere ==
    /\ pbPc = "encoded"
    /\ NewParamsBuilder([where |-> whereString])
    /\ UNCHANGED << pbModel, pbStep, round, sentTree, includeString >>
    /\ UNCHANGED << crudVars, apiVars >>

InitWhere ==
    /\ whereObject \in WhereObjects
    /\ whereString = << >>
    /\ apis = << >>
    /\ localStorage = EmptyObject
    /\ callerParams = EmptyObject
    /\ apiCall = NoApiCall
    /\ pbModel = "Material"
    /\ inputParams = EmptyObject
    /\ outputParams = EmptyObject
    /\ pbError = NoError
    /\ pbPc = "idle"
    /\ pbStep = NoStep
    /\ round = 1
    /\ sentTree = << >>
    /\ includeString = [err |-> << >>, str |-> << >>]
    /\ options = EmptyObject
    /\ members = {}
    /\ table = EmptyObject
    /\ call = NoCall
    /\ destroyed = {}

\* the decoding step as RestController calls it, skipped when the
\* parameter is falsy, and as called without a skipIf
NextWhere ==
    \/ GetWhereString
    \/ ReceiveWhere
    \/ \E skipIf \in {FALSE, whereString = << >>} :
          FilterStringObjectArray("where", "where", skipIf)

SpecWhere == InitWhere /\ [][NextWhere]_vars

\* the keys of a where object
WhereKeys(pairs) == { pairs[i].key : i \in 1..Len(pairs) }

\* C29: filterStringObjectArray applied to getWhereString(w) yields w: the
\* decoded mapping has the keys of w and no other, each with its value.
WhereRoundTrip ==
    (pbStep.fn = "filterStringObjectArray" /\ ~pbStep.skipIf) =>
        /\ pbPc # "failed"
        /\ "where" \in DOMAIN outputParams
        /\ DOMAIN outputParams["where"] = WhereKeys(whereObject)
        /\ \A i \in 1..Len(whereObject) :
              outputParams["where"][whereObject[i].key] = whereObject[i].value

====
